---- MODULE Spec2Model ----
(***************************************************************************)
(* A model of bvar-rust: the thread-sharded reducer (detail/combiner.rs,   *)
(* reducer.rs) and the sampler registry with its background driver thread  *)
(* (detail/sampler.rs).                                                    *)
(*                                                                         *)
(* SpecReducer  : one Reducer<T, Op> shared by NThreads threads.           *)
(* SpecSampler  : GLOBAL_SAMPLER_STATE, the driver threads it spawns and   *)
(*                the ReducerSampler objects registered with it.           *)
(* SpecDestroy  : the Sampler objects on their own (ReducerSampler and     *)
(*                SeriesSampler), every method called directly.            *)
(***************************************************************************)
EXTENDS Integers, Sequences, FiniteSets, TLC

(***************************************************************************)
(* Bounds of the model.                                                    *)
(***************************************************************************)
NThreads == 2

MaxAdds == 3

Threads == 1..NThreads

Values == {2, 5}

Identities == {0, 1}

Ops == {"add", "max", "min"}

NoAgent == [value |-> -1, id |-> 0]

VARIABLES
    identity,   \* AgentCombiner.identity
    op,         \* AgentCombiner.op
    next_id,    \* AgentCombiner.next_id
    tls,        \* AgentCombiner.tls: thread -> Agent, NoAgent before first touch
    ret,        \* the last Reducer call that returned: [op, thread, val]
    added       \* the values passed to add since construction or the last reset

rvars == <<identity, op, next_id, tls, ret, added>>

VARIABLES
    born,           \* sampler id -> the object has been constructed
    held,           \* sampler id -> user code holds a strong Arc to it
    from_new,       \* sampler id -> built by ReducerSampler::new (not by clone)
    weak_self,      \* ReducerSampler.weak_self: the sampler it points to, or None
    owner,          \* ReducerSampler.owner: the owner object it points to
    owner_held,     \* owner id -> user code holds a strong Arc<Owner>
    destroyed,      \* ReducerSampler.destroyed
    destroy_called, \* sampler id -> destroy() has been called on it
    samplers,       \* GlobalSamplerState.samplers (the sampler each Weak points to)
    is_running,     \* GlobalSamplerState.is_running
    elapsed,        \* now.duration_since(last_sample_time) in ms, capped at the interval
    lock,           \* holder of the GLOBAL_SAMPLER_STATE mutex
    pruned,         \* the samplers of which a retain has removed an entry
    upgraded,       \* the sampler whose entry the lock holder has upgraded for a test, or None
    dpc,            \* driver id -> position of that driver thread
    valid_samplers, \* driver id -> strong handles of the sweep not yet sampled
    cur,            \* driver id -> sampler whose take_sample() is in progress
    proceed,        \* driver id -> that take_sample() is in its `if let Some(owner)` block
    on_error,       \* the take_sample() that returned last called error_handler.on_error
    app             \* app thread -> its call in progress: [pc, via, weak, proceed, refused]

objvars == <<born, held, from_new, weak_self, owner, owner_held, destroyed,
             destroy_called>>

regvars == <<samplers, is_running, elapsed, lock, pruned, upgraded>>

drvvars == <<dpc, valid_samplers, cur, proceed, on_error>>

svars == <<objvars, regvars, drvvars, app>>

VARIABLES
    ss_data,            \* SeriesSampler.data
    ss_destroyed,       \* SeriesSampler.destroyed
    ss_destroy_called,  \* destroy() has been called on the SeriesSampler
    ss_out              \* what the last describe() call wrote to its formatter

ssvars == <<ss_data, ss_destroyed, ss_destroy_called, ss_out>>

VARIABLES
    second_points,      \* Series.second_points
    minute_points,      \* Series.minute_points
    hour_points,        \* Series.hour_points
    day_points,         \* Series.day_points
    last_point,         \* Series.last_point
    last_sample_time,   \* Series.last_sample_time, NoTime for None
    clock,              \* the time, in tenths of a second since the Series was built
    appender,           \* thread -> its Series::append call: [pc, point, now, flags]
    describer,          \* the Series::describe call: [pc, second, minute, hour]
    se_out,             \* what the last Series::describe call wrote, tier by tier
    inserted,           \* tier -> every point handed to add_to_series for it
    marks,              \* every instant stored in last_sample_time
    ss_inserted,        \* every value SeriesSampler::append pushed
    cadence,            \* the gaps the caller may leave between two append calls
    appends             \* the number of Series::append calls started so far

tiervars == <<second_points, minute_points, hour_points, day_points>>

sevars == <<tiervars, last_point, last_sample_time, clock, appender, describer,
            se_out, inserted, marks, cadence, appends>>

VARIABLES
    exposed_vars,   \* EXPOSED_VARS: full name -> VarEntry, NoEntry when absent
    v_kind,         \* object -> the type that implements Variable for it
    v_live,         \* object -> it has not been dropped
    v_addr,         \* object -> its address
    v_name,         \* object -> what its name() returns
    vcall,          \* thread -> its expose or hide call: [pc, obj, name, entry]
    vret            \* the last expose or hide call that returned

vvars == <<exposed_vars, v_kind, v_live, v_addr, v_name, vcall, vret>>

VARIABLES
    ir_tls,     \* IntRecorder.tls: thread -> the Stat of its Agent, or NoShard
    ir_call,    \* thread -> its get_value or reset call: [pc, op, i, result]
    ir_ret,     \* the last get_value or reset call that returned
    ir_since,   \* the samples added since the last reset returned, as a Stat
    ir_all,     \* all the samples ever added, as a Stat
    ir_taken    \* the sum of what the reset calls have returned

irvars == <<ir_tls, ir_call, ir_ret, ir_since, ir_all, ir_taken>>

VARIABLES
    combiner_lock,  \* the thread that holds Reducer.combiner's mutex, or Unlocked
    rcall           \* thread -> its Reducer call: [pc, op, arg]

rlvars == <<combiner_lock, rcall>>

VARIABLES
    ex_registry,    \* examples: REGISTRY, the sampler each Weak points to
    ex_pc,          \* example sampler -> the position of the new() that builds it
    ex_strong,      \* example sampler -> a strong handle to it exists
    ex_weak_self,   \* example sampler -> its weak_self, 0 for None
    ex_obs          \* what another thread last found in REGISTRY

exvars == <<ex_registry, ex_pc, ex_strong, ex_weak_self, ex_obs>>

\* What the operations of one component leave alone.
nonReducer == <<svars, ssvars, ss_inserted, sevars, vvars, irvars, rlvars, exvars>>

nonSampler == <<rvars, ssvars, ss_inserted, sevars, vvars, irvars, rlvars, exvars>>

nonSeriesSampler == <<rvars, svars, sevars, vvars, irvars, rlvars, exvars>>

nonSeries == <<rvars, svars, ssvars, ss_inserted, vvars, irvars, rlvars, exvars>>

nonRegistry == <<rvars, svars, ssvars, ss_inserted, sevars, irvars, rlvars, exvars>>

nonRecorder == <<rvars, svars, ssvars, ss_inserted, sevars, vvars, rlvars, exvars>>

nonExample == <<rvars, svars, ssvars, ss_inserted, sevars, vvars, irvars, rlvars>>

(***************************************************************************)
(* reducer.rs: AddTo / MaxTo / MinTo, the Combiner implementations.        *)
(***************************************************************************)
Combine(o, lhs, rhs) ==
    CASE o = "add" -> lhs + rhs
      [] o = "max" -> IF rhs > lhs THEN rhs ELSE lhs
      [] o = "min" -> IF rhs < lhs THEN rhs ELSE lhs

(***************************************************************************)
(* The agents that exist, in the order tls.iter() visits them.             *)
(***************************************************************************)
RECURSIVE AgentsFrom(_, _)
AgentsFrom(t, f) ==
    IF t > NThreads THEN <<>>
    ELSE IF f[t] = NoAgent THEN AgentsFrom(t + 1, f)
         ELSE <<f[t]>> \o AgentsFrom(t + 1, f)

TlsIter(f) == AgentsFrom(1, f)

(***************************************************************************)
(* combiner.rs combine_agents: `result` is bound once to identity; every   *)
(* iteration evaluates op.combine(result.clone(), agent_value) and drops   *)
(* the value it returns; `result` is returned.                             *)
(***************************************************************************)
RECURSIVE CombineLoop(_, _, _)
CombineLoop(o, result, agents) ==
    IF agents = <<>> THEN result
    ELSE LET agent_value == Head(agents).value
             dropped == Combine(o, result, agent_value)
         IN  CombineLoop(o, result, Tail(agents))

CombineAgents(o, ident, f) == CombineLoop(o, ident, TlsIter(f))

(***************************************************************************)
(* The fold with the accumulator threaded through every combine call.      *)
(***************************************************************************)
RECURSIVE ThreadedLoop(_, _, _)
ThreadedLoop(o, result, agents) ==
    IF agents = <<>> THEN result
    ELSE ThreadedLoop(o, Combine(o, result, Head(agents).value), Tail(agents))

ResetReturnsThreadedFold(o, ident, f) == ThreadedLoop(o, ident, TlsIter(f))

(***************************************************************************)
(* combiner.rs reset_all_agents: the value returned ...                    *)
(***************************************************************************)
ResetAllAgentsResult(o, ident, f) == CombineAgents(o, ident, f)

(***************************************************************************)
(* ... and the agents afterwards: every existing agent's value is          *)
(* overwritten with identity, its id is kept.                              *)
(***************************************************************************)
ResetAllAgentsTls(ident, f) ==
    [t \in Threads |-> IF f[t] = NoAgent THEN NoAgent
                       ELSE [f[t] EXCEPT !.value = ident]]

(***************************************************************************)
(* combiner.rs get_or_create_tls_agent: the calling thread's agent,        *)
(* created on first touch with value = identity and id = next_id.          *)
(***************************************************************************)
\* the counter is not advanced
GetOrCreateKeepsCounter(t, ident, nid, f) ==
    IF f[t] = NoAgent
    THEN [tls |-> [f EXCEPT ![t] = [value |-> ident, id |-> nid]],
          next_id |-> nid]
    ELSE [tls |-> f, next_id |-> nid]

GetOrCreateTlsAgent(t, ident, nid, f) ==
    IF f[t] = NoAgent
    THEN [tls |-> [f EXCEPT ![t] = [value |-> ident, id |-> nid]],
          next_id |-> nid + 1]
    ELSE [tls |-> f, next_id |-> nid]

(***************************************************************************)
(* reducer.rs Reducer::add: locks the combiner, gets or creates the        *)
(* caller's agent, locks it and evaluates op.combine(guard.value, value);  *)
(* the result is dropped and guard.value is not assigned.                  *)
(***************************************************************************)
AddBody(t, v) ==
    /\ Len(added) < MaxAdds
    /\ LET g == GetOrCreateTlsAgent(t, identity, next_id, tls)
           dropped == Combine(op, g.tls[t].value, v)
       IN  /\ tls' = g.tls
           /\ next_id' = g.next_id
    /\ added' = Append(added, v)
    /\ ret' = [op |-> "add", thread |-> t, val |-> v,
               prev_op |-> ret.op, prev_val |-> ret.val]
    /\ UNCHANGED <<identity, op>>

Add(t, v) == AddBody(t, v) /\ UNCHANGED nonReducer

(***************************************************************************)
(* reducer.rs Reducer::get_value.                                          *)
(***************************************************************************)
GetValueBody(t) ==
    /\ ret' = [op |-> "get", thread |-> t, val |-> CombineAgents(op, identity, tls),
               prev_op |-> ret.op, prev_val |-> ret.val]
    /\ UNCHANGED <<identity, op, next_id, tls, added>>

GetValue(t) == GetValueBody(t) /\ UNCHANGED nonReducer

(***************************************************************************)
(* reducer.rs Reducer::reset.                                              *)
(***************************************************************************)
ResetBody(t) ==
    /\ ret' = [op |-> "reset", thread |-> t,
               val |-> ResetAllAgentsResult(op, identity, tls),
               prev_op |-> ret.op, prev_val |-> ret.val]
    /\ tls' = ResetAllAgentsTls(identity, tls)
    /\ added' = <<>>
    /\ UNCHANGED <<identity, op, next_id>>

Reset(t) == ResetBody(t) /\ UNCHANGED nonReducer

(***************************************************************************)
(* reducer.rs: the same calls with the steps at which they take and give   *)
(* back the mutex of Reducer.combiner, which every clone shares.           *)
(***************************************************************************)
\* nobody holds the mutex
Unlocked == 0

IdleReducerCall == [pc |-> "idle", op |-> "none", arg |-> 0]

OthersUnchanged == UNCHANGED <<svars, ssvars, ss_inserted, sevars, vvars, irvars, exvars>>

\* the adds that have been called and have not returned
AddsInFlight == Cardinality({t \in Threads : rcall[t].op = "add"})

\* a thread enters add, get_value or reset
ReducerCall(t, call, v) ==
    /\ rcall[t].pc = "idle"
    /\ call = "add" => Len(added) + AddsInFlight < MaxAdds
    /\ rcall' = [rcall EXCEPT ![t] =
            [pc |-> IF call = "add" THEN "op" ELSE "lock", op |-> call, arg |-> v]]
    /\ UNCHANGED <<rvars, combiner_lock>>
    /\ OthersUnchanged

\* add line 72: self.combiner.lock().op().clone(), the guard is a temporary
ReducerReadOp(t) ==
    /\ rcall[t].pc = "op"
    /\ combiner_lock = Unlocked
    /\ rcall' = [rcall EXCEPT ![t].pc = "lock"]
    /\ UNCHANGED <<rvars, combiner_lock>>
    /\ OthersUnchanged

\* add line 73, get_value line 82, reset line 87: self.combiner.lock()
ReducerLock(t) ==
    /\ rcall[t].pc = "lock"
    /\ combiner_lock = Unlocked
    /\ combiner_lock' = t
    /\ rcall' = [rcall EXCEPT ![t].pc = "locked"]
    /\ UNCHANGED rvars
    /\ OthersUnchanged

\* the rest of the call, up to the drop of the guard
ReducerUnlock(t) ==
    /\ rcall[t].pc = "locked"
    /\ CASE rcall[t].op = "add" -> AddBody(t, rcall[t].arg)
         [] rcall[t].op = "get" -> GetValueBody(t)
         [] rcall[t].op = "reset" -> ResetBody(t)
    /\ combiner_lock' = Unlocked
    /\ rcall' = [rcall EXCEPT ![t] = IdleReducerCall]
    /\ OthersUnchanged

ReducerLockInit ==
    /\ combiner_lock = Unlocked
    /\ rcall = [t \in Threads |-> IdleReducerCall]


(***************************************************************************)
(* detail/sampler.rs.                                                      *)
(***************************************************************************)
NSamplers == 2

NDrivers == 2

MaxEntries == 2

SamplerIds == 1..NSamplers

DriverIds == 1..NDrivers

\* sample_interval: Duration::from_secs(1), in milliseconds
SampleIntervalMs == 1000

\* thread::sleep(Duration::from_millis(100)) of the driver loop
SleepMs == 100

\* Option::None of weak_self, and "no sampler" in general
None == 0

Free == <<"free", 0>>

AppThread(t) == <<"app", t>>

DriverThread(d) == <<"driver", d>>

IdleApp == [pc |-> "idle", via |-> None, weak |-> None, proceed |-> FALSE,
            refused |-> FALSE]

(***************************************************************************)
(* Sequence helpers.                                                       *)
(***************************************************************************)
Range(q) == {q[i] : i \in 1..Len(q)}

RECURSIVE Filter(_, _)
Filter(q, keep) ==
    IF q = <<>> THEN <<>>
    ELSE IF Head(q) \in keep THEN <<Head(q)>> \o Filter(Tail(q), keep)
         ELSE Filter(Tail(q), keep)

(***************************************************************************)
(* Arc / Weak: a sampler is alive while a strong handle exists, held by    *)
(* user code or by a driver thread that upgraded a registry entry.         *)
(***************************************************************************)
DriverHolds(s) == \E d \in DriverIds : s \in Range(valid_samplers[d]) \/ cur[d] = s

\* the Arc that `s.upgrade()` returns inside retain's closure or the println loop
TemporaryHolds(s) == upgraded = s

LiveSamplers ==
    {s \in SamplerIds : born[s] /\ (held[s] \/ DriverHolds(s) \/ TemporaryHolds(s))}

\* Weak::upgrade on a registry entry or on weak_self
Upgradable(w) == w \in LiveSamplers

(***************************************************************************)
(* An owner is alive while user code holds it or a take_sample() call is   *)
(* inside `if let Some(owner) = self.owner.upgrade()` with it.             *)
(***************************************************************************)
OwnerAlive(o) ==
    \/ owner_held[o]
    \/ \E d \in DriverIds : proceed[d] /\ owner[cur[d]] = o
    \/ \E t \in Threads : app[t].proceed /\ owner[app[t].via] = o

DriverAlive(d) == dpc[d] \in {"sleep", "locked", "sweep", "in_take", "pruning"}

AliveDrivers == {d \in DriverIds : DriverAlive(d)}

(***************************************************************************)
(* sampler.rs ReducerSampler::new, the weak_self field: Arc::new_cyclic    *)
(* hands the closure the Weak of the allocation being built.               *)
(***************************************************************************)
NewWeakSelfEmpty(s) == None

NewWeakSelf(s) == s

(***************************************************************************)
(* ReducerSampler::new(owner, ..), called with the caller's Arc<Owner>.    *)
(***************************************************************************)
New(s) ==
    /\ ~born[s]
    /\ \A r \in SamplerIds : r < s => born[r]
    /\ born' = [born EXCEPT ![s] = TRUE]
    /\ held' = [held EXCEPT ![s] = TRUE]
    /\ from_new' = [from_new EXCEPT ![s] = TRUE]
    /\ weak_self' = [weak_self EXCEPT ![s] = NewWeakSelf(s)]
    /\ owner' = [owner EXCEPT ![s] = s]
    /\ owner_held' = [owner_held EXCEPT ![s] = TRUE]
    /\ UNCHANGED <<destroyed, destroy_called>>
    /\ UNCHANGED <<regvars, drvvars, app>>
    /\ UNCHANGED nonSampler

(***************************************************************************)
(* impl Clone for ReducerSampler: the copy shares owner and weak_self and  *)
(* gets a new flag loaded from the original's; user code owns the copy.    *)
(***************************************************************************)
CloneDestroyed(flag) == flag

Clone(s, c) ==
    /\ born[s] /\ held[s]
    /\ ~born[c]
    /\ \A r \in SamplerIds : r < c => born[r]
    /\ born' = [born EXCEPT ![c] = TRUE]
    /\ held' = [held EXCEPT ![c] = TRUE]
    /\ weak_self' = [weak_self EXCEPT ![c] = weak_self[s]]
    /\ owner' = [owner EXCEPT ![c] = owner[s]]
    /\ destroyed' = [destroyed EXCEPT ![c] = CloneDestroyed(destroyed[s])]
    /\ UNCHANGED <<from_new, owner_held, destroy_called>>
    /\ UNCHANGED <<regvars, drvvars, app>>
    /\ UNCHANGED nonSampler

(***************************************************************************)
(* User code drops its strong handle; it cannot while one of its threads   *)
(* is inside a &self method of that sampler.                               *)
(***************************************************************************)
DropHandle(s) ==
    /\ born[s] /\ held[s]
    /\ \A t \in Threads : app[t].via # s
    /\ held' = [held EXCEPT ![s] = FALSE]
    /\ UNCHANGED <<born, from_new, weak_self, owner, owner_held, destroyed,
                   destroy_called>>
    /\ UNCHANGED <<regvars, drvvars, app>>
    /\ UNCHANGED nonSampler

\* User code drops its last Arc<Owner>.
DropOwner(o) ==
    /\ born[o] /\ owner_held[o]
    /\ owner_held' = [owner_held EXCEPT ![o] = FALSE]
    /\ UNCHANGED <<born, held, from_new, weak_self, owner, destroyed,
                   destroy_called>>
    /\ UNCHANGED <<regvars, drvvars, app>>
    /\ UNCHANGED nonSampler

(***************************************************************************)
(* ReducerSampler::destroy: destroyed.store(true).                         *)
(***************************************************************************)
DestroyToggles(flag) == ~flag

DestroyStore(flag) == TRUE

Destroy(s) ==
    /\ born[s] /\ held[s]
    /\ destroyed' = [destroyed EXCEPT ![s] = DestroyStore(destroyed[s])]
    /\ destroy_called' = [destroy_called EXCEPT ![s] = TRUE]
    /\ UNCHANGED <<born, held, from_new, weak_self, owner, owner_held>>
    /\ UNCHANGED <<regvars, drvvars, app>>
    /\ UNCHANGED nonSampler

(***************************************************************************)
(* ReducerSampler::take_sample, its two checks: it returns at once when    *)
(* destroyed is set and skips the block when owner.upgrade() is None.      *)
(* The block is owner.get_value(), op.combine(value, value) and            *)
(* error_handler.on_error(..); nothing else in take_sample has an effect.  *)
(***************************************************************************)
TakeSampleUnwrapsOwner(flag, ownerAlive) == ~flag

TakeSampleProceeds(flag, ownerAlive) == ~flag /\ ownerAlive

(***************************************************************************)
(* The last statement of the block is                                      *)
(* `self.error_handler.on_error(..)`, under no condition of its own:       *)
(* a call that entered the block and did not panic reaches it.             *)
(***************************************************************************)
TakeSampleCallsOnError(entered) == entered

(***************************************************************************)
(* take_sample() called by user code on a sampler it holds.                *)
(***************************************************************************)
AppTakeBegin(t, s) ==
    /\ app[t].pc = "idle"
    /\ born[s] /\ held[s]
    /\ app' = [app EXCEPT ![t] =
                 [pc |-> "in_take", via |-> s, weak |-> None,
                  proceed |-> TakeSampleProceeds(destroyed[s], OwnerAlive(owner[s])),
                  refused |-> FALSE]]
    /\ UNCHANGED <<objvars, regvars, drvvars>>
    /\ UNCHANGED nonSampler

\* It returns, or panics and unwinds the calling thread's frame.
AppTakeEnd(t) ==
    /\ app[t].pc = "in_take"
    /\ app' = [app EXCEPT ![t] = IdleApp]
    /\ \E returned \in (IF app[t].proceed THEN BOOLEAN ELSE {TRUE}) :
           on_error' = IF returned THEN TakeSampleCallsOnError(app[t].proceed)
                                   ELSE on_error
    /\ UNCHANGED <<objvars, regvars, dpc, valid_samplers, cur, proceed>>
    /\ UNCHANGED nonSampler

(***************************************************************************)
(* GlobalSamplerState::register_sampler, the entry collection: retain the  *)
(* entries that still upgrade, then push the new Weak.                     *)
(***************************************************************************)
Retain(q) == Filter(q, LiveSamplers)

\* register_sampler without its retain
RegisterKeepsDead(q, w) == Append(q, w)

RegisterSamplerEntries(q, w) == Append(Retain(q), w)

\* the samplers that have an entry before and none after
RemovedBy(before, after) == Range(before) \ Range(after)

(***************************************************************************)
(* `if !self.is_running` in register_sampler and `if self.is_running       *)
(* { return; }` in start_sampler_thread.                                   *)
(***************************************************************************)
StartAlways(running) == TRUE

StartNeeded(running) == ~running

\* thread::spawn: the new driver thread starts at the top of its loop.
FreeSlots(pcs) == {d \in DriverIds : pcs[d] \in {"none", "panicked"}}

Spawn(pcs) ==
    IF FreeSlots(pcs) = {} THEN pcs
    ELSE LET d == CHOOSE x \in FreeSlots(pcs) : \A y \in FreeSlots(pcs) : x <= y
         IN  [pcs EXCEPT ![d] = "sleep"]

\* now.duration_since(last_sample_time) after another SleepMs has passed
Elapse(e) ==
    IF e + SleepMs >= SampleIntervalMs THEN SampleIntervalMs ELSE e + SleepMs

(***************************************************************************)
(* ReducerSampler::schedule, up to GLOBAL_SAMPLER_STATE.lock(): returns    *)
(* false when weak_self is None, otherwise takes the registry lock.        *)
(***************************************************************************)
ScheduleLock(t, s) ==
    /\ app[t].pc = "idle"
    /\ born[s] /\ held[s]
    /\ IF weak_self[s] = None
       THEN /\ app' = [app EXCEPT ![t] = [IdleApp EXCEPT !.refused = TRUE]]
            /\ UNCHANGED lock
       ELSE /\ lock = Free
            /\ Len(Retain(samplers)) < MaxEntries
            /\ lock' = AppThread(t)
            /\ app' = [app EXCEPT ![t] =
                         [pc |-> "registering", via |-> s, weak |-> weak_self[s],
                          proceed |-> FALSE, refused |-> FALSE]]
    /\ UNCHANGED <<pruned, upgraded, samplers, is_running, elapsed>>
    /\ UNCHANGED <<objvars, drvvars>>
    /\ UNCHANGED nonSampler

(***************************************************************************)
(* register_sampler(weak.clone()) under the lock, start_sampler_thread     *)
(* included, then the guard is dropped and schedule returns true.          *)
(***************************************************************************)
Register(t) ==
    /\ app[t].pc = "registering"
    /\ lock = AppThread(t)
    /\ samplers' = RegisterSamplerEntries(samplers, app[t].weak)
    /\ pruned' = pruned \cup RemovedBy(samplers, samplers')
    /\ upgraded = None /\ UNCHANGED upgraded
    /\ is_running' = TRUE
    /\ dpc' = IF StartNeeded(is_running) THEN Spawn(dpc) ELSE dpc
    /\ lock' = Free
    /\ app' = [app EXCEPT ![t] = IdleApp]
    /\ UNCHANGED <<elapsed, valid_samplers, cur, proceed, on_error>>
    /\ UNCHANGED objvars
    /\ UNCHANGED nonSampler

(***************************************************************************)
(* Driver loop: thread::sleep(100 ms), or longer, then state.lock().       *)
(* The clock is read only under this lock, so the time that passed since   *)
(* the driver last looked is accounted for here.                           *)
(***************************************************************************)
DriverWake(d) ==
    /\ dpc[d] = "sleep"
    /\ lock = Free
    /\ lock' = DriverThread(d)
    /\ elapsed' \in {Elapse(elapsed), SampleIntervalMs}
    /\ dpc' = [dpc EXCEPT ![d] = "locked"]
    /\ UNCHANGED <<pruned, upgraded, samplers, is_running, valid_samplers, cur, proceed, on_error>>
    /\ UNCHANGED <<objvars, app>>
    /\ UNCHANGED nonSampler

(***************************************************************************)
(* The guard once valid_samplers has been collected: drop(guard).          *)
(***************************************************************************)
GuardKeptForSweep(d) == DriverThread(d)

GuardAfterSnapshot(d) == Free

(***************************************************************************)
(* Driver loop under the lock: the interval check; when it passes,         *)
(* last_sample_time = now, the live entries are upgraded into              *)
(* valid_samplers and the guard is dropped; otherwise the guard is         *)
(* dropped at the end of the iteration.                                    *)
(***************************************************************************)
\* the check passes on every wake-up
IntervalPassedAlways(e) == TRUE

\* now.duration_since(guard.last_sample_time) >= guard.sample_interval
IntervalPassed(e) == e >= SampleIntervalMs

DriverCheck(d) ==
    /\ dpc[d] = "locked"
    /\ lock = DriverThread(d)
    /\ upgraded = None
    /\ IF IntervalPassed(elapsed)
       THEN /\ elapsed' = 0
            /\ valid_samplers' = [valid_samplers EXCEPT ![d] = Retain(samplers)]
            /\ lock' = GuardAfterSnapshot(d)
            /\ dpc' = [dpc EXCEPT ![d] = "sweep"]
       ELSE /\ lock' = Free
            /\ dpc' = [dpc EXCEPT ![d] = "sleep"]
            /\ UNCHANGED <<elapsed, valid_samplers>>
    /\ UNCHANGED <<pruned, upgraded, samplers, is_running, cur, proceed, on_error>>
    /\ UNCHANGED <<objvars, app>>
    /\ UNCHANGED nonSampler

(***************************************************************************)
(* `for sampler in valid_samplers`: the next handle is moved out of the    *)
(* vector and take_sample() is entered; its two checks are made.           *)
(***************************************************************************)
DriverTakeBegin(d) ==
    /\ dpc[d] = "sweep"
    /\ valid_samplers[d] # <<>>
    /\ LET s == Head(valid_samplers[d])
       IN  /\ cur' = [cur EXCEPT ![d] = s]
           /\ proceed' = [proceed EXCEPT ![d] =
                  TakeSampleProceeds(destroyed[s], OwnerAlive(owner[s]))]
    /\ valid_samplers' = [valid_samplers EXCEPT ![d] = Tail(@)]
    /\ dpc' = [dpc EXCEPT ![d] = "in_take"]
    /\ UNCHANGED on_error
    /\ UNCHANGED <<regvars, objvars, app>>
    /\ UNCHANGED nonSampler

(***************************************************************************)
(* A schedule() call made from inside take_sample() (Owner::get_value and  *)
(* Op::combine are caller-supplied code), on the driver thread.            *)
(***************************************************************************)
DriverReentrantSchedule(d) ==
    /\ dpc[d] = "in_take"
    /\ proceed[d]
    /\ weak_self[cur[d]] # None
    /\ lock = Free
    /\ Len(Retain(samplers)) < MaxEntries
    /\ samplers' = RegisterSamplerEntries(samplers, weak_self[cur[d]])
    /\ pruned' = pruned \cup RemovedBy(samplers, samplers')
    /\ upgraded = None /\ UNCHANGED upgraded
    /\ is_running' = TRUE
    /\ dpc' = IF StartNeeded(is_running) THEN Spawn(dpc) ELSE dpc
    /\ UNCHANGED <<elapsed, lock, valid_samplers, cur, proceed, on_error>>
    /\ UNCHANGED <<objvars, app>>
    /\ UNCHANGED nonSampler

(***************************************************************************)
(* take_sample() returns; the loop drops this sampler's strong handle.     *)
(***************************************************************************)
DriverTakeEnd(d) ==
    /\ dpc[d] = "in_take"
    /\ cur' = [cur EXCEPT ![d] = None]
    /\ proceed' = [proceed EXCEPT ![d] = FALSE]
    /\ dpc' = [dpc EXCEPT ![d] = "sweep"]
    /\ on_error' = TakeSampleCallsOnError(proceed[d])
    /\ UNCHANGED valid_samplers
    /\ UNCHANGED <<regvars, objvars, app>>
    /\ UNCHANGED nonSampler

(***************************************************************************)
(* The block of take_sample() panics (get_value and combine are generic    *)
(* code): nothing in the spawned closure catches it, the thread unwinds,   *)
(* dropping the handles it holds, and ends.  The registry lock is not      *)
(* held at that point and the registry is left as it is.                   *)
(***************************************************************************)
DriverTakePanics(d) ==
    /\ dpc[d] = "in_take"
    /\ proceed[d]
    /\ cur' = [cur EXCEPT ![d] = None]
    /\ proceed' = [proceed EXCEPT ![d] = FALSE]
    /\ valid_samplers' = [valid_samplers EXCEPT ![d] = <<>>]
    /\ dpc' = [dpc EXCEPT ![d] = "panicked"]
    /\ UNCHANGED on_error
    /\ UNCHANGED <<regvars, objvars, app>>
    /\ UNCHANGED nonSampler

\* After the sweep: state.lock() again.
DriverRelock(d) ==
    /\ dpc[d] = "sweep"
    /\ valid_samplers[d] = <<>>
    /\ lock = Free
    /\ lock' = DriverThread(d)
    /\ dpc' = [dpc EXCEPT ![d] = "pruning"]
    /\ UNCHANGED <<pruned, upgraded, samplers, is_running, elapsed, valid_samplers, cur, proceed, on_error>>
    /\ UNCHANGED <<objvars, app>>
    /\ UNCHANGED nonSampler

(***************************************************************************)
(* retain(upgradable); when nothing is left is_running = false and the     *)
(* loop breaks (the thread ends), otherwise the loop goes on; either way   *)
(* the guard is dropped.                                                   *)
(***************************************************************************)
DriverPrune(d) ==
    /\ dpc[d] = "pruning"
    /\ lock = DriverThread(d)
    /\ samplers' = Retain(samplers)
    /\ pruned' = pruned \cup RemovedBy(samplers, samplers')
    /\ upgraded = None /\ UNCHANGED upgraded
    /\ IF Retain(samplers) = <<>>
       THEN /\ is_running' = FALSE
            /\ dpc' = [dpc EXCEPT ![d] = "none"]
       ELSE /\ dpc' = [dpc EXCEPT ![d] = "sleep"]
            /\ UNCHANGED is_running
    /\ lock' = Free
    /\ UNCHANGED <<elapsed, valid_samplers, cur, proceed, on_error>>
    /\ UNCHANGED <<objvars, app>>
    /\ UNCHANGED nonSampler

(***************************************************************************)
(* `s.upgrade().is_some()` on one entry, in retain's closure                *)
(* (register_sampler and the driver's pruning) or in the println loops     *)
(* that run under the guard: upgrade() makes a strong handle, is_some()    *)
(* looks at it, and the handle is dropped at the end of the expression.    *)
(* The thread that runs it holds the registry lock from the upgrade to     *)
(* the drop; user threads run meanwhile.                                   *)
(***************************************************************************)
UpgradeEntry(s) ==
    /\ lock # Free
    /\ upgraded = None
    /\ s \in Range(samplers)
    /\ Upgradable(s)
    /\ upgraded' = s
    /\ UNCHANGED <<samplers, is_running, elapsed, lock, pruned>>
    /\ UNCHANGED <<objvars, drvvars, app>>
    /\ UNCHANGED nonSampler

DropUpgraded ==
    /\ lock # Free
    /\ upgraded # None
    /\ upgraded' = None
    /\ UNCHANGED <<samplers, is_running, elapsed, lock, pruned>>
    /\ UNCHANGED <<objvars, drvvars, app>>
    /\ UNCHANGED nonSampler

SamplerInit ==
    /\ born = [s \in SamplerIds |-> FALSE]
    /\ held = [s \in SamplerIds |-> FALSE]
    /\ from_new = [s \in SamplerIds |-> FALSE]
    /\ weak_self = [s \in SamplerIds |-> None]
    /\ owner = [s \in SamplerIds |-> None]
    /\ owner_held = [s \in SamplerIds |-> FALSE]
    /\ destroyed = [s \in SamplerIds |-> FALSE]
    /\ destroy_called = [s \in SamplerIds |-> FALSE]
    /\ samplers = <<>>
    /\ is_running = FALSE
    /\ elapsed = 0
    /\ lock = Free
    /\ pruned = {}
    /\ upgraded = None
    /\ dpc = [d \in DriverIds |-> "none"]
    /\ valid_samplers = [d \in DriverIds |-> <<>>]
    /\ cur = [d \in DriverIds |-> None]
    /\ proceed = [d \in DriverIds |-> FALSE]
    /\ on_error = FALSE
    /\ app = [t \in Threads |-> IdleApp]

(***************************************************************************)
(* sampler.rs SeriesSampler.                                               *)
(***************************************************************************)
\* window.rs SERIES_IN_SECOND = WINDOW_SIZE_SECOND
SERIES_IN_SECOND == 60

(***************************************************************************)
(* SeriesSampler::append: nothing when destroyed; otherwise push, and      *)
(* remove(0) when the length went over SERIES_IN_SECOND.                   *)
(***************************************************************************)
AppendData(flag, data, value) ==
    IF flag THEN data
    ELSE LET pushed == Append(data, value)
         IN  IF Len(pushed) > SERIES_IN_SECOND THEN Tail(pushed) ELSE pushed

SeriesAppend(value) ==
    /\ ss_data' = AppendData(ss_destroyed, ss_data, value)
    /\ ss_inserted' = IF ss_destroyed THEN ss_inserted ELSE Append(ss_inserted, value)
    /\ UNCHANGED <<ss_destroyed, ss_destroy_called, ss_out>>
    /\ UNCHANGED nonSeriesSampler

(***************************************************************************)
(* SeriesSampler::describe: nothing when destroyed; otherwise "[", the     *)
(* values separated by ",", "]".                                           *)
(***************************************************************************)
RECURSIVE JoinValues(_, _)
JoinValues(data, first) ==
    IF data = <<>> THEN <<>>
    ELSE (IF first THEN <<>> ELSE <<",">>) \o <<Head(data)>> \o JoinValues(Tail(data), FALSE)

DescribeText(flag, data) ==
    IF flag THEN <<>>
    ELSE <<"[">> \o JoinValues(data, TRUE) \o <<"]">>

SeriesDescribe ==
    /\ ss_out' = DescribeText(ss_destroyed, ss_data)
    /\ UNCHANGED <<ss_data, ss_inserted, ss_destroyed, ss_destroy_called>>
    /\ UNCHANGED nonSeriesSampler

\* SeriesSampler::destroy: destroyed.store(true).
SeriesDestroy ==
    /\ ss_destroyed' = DestroyStore(ss_destroyed)
    /\ ss_destroy_called' = TRUE
    /\ UNCHANGED <<ss_data, ss_inserted, ss_out>>
    /\ UNCHANGED nonSeriesSampler

SeriesSamplerInit ==
    /\ ss_data = <<>>
    /\ ss_destroyed = FALSE
    /\ ss_destroy_called = FALSE
    /\ ss_out = <<>>
    /\ ss_inserted = <<>>

(***************************************************************************)
(* detail/series.rs Series<T, Op>: the four tiers of data points.          *)
(***************************************************************************)
\* window.rs SERIES_IN_MINUTE, SERIES_IN_HOUR, SERIES_IN_DAY
SERIES_IN_MINUTE == 60

SERIES_IN_HOUR == 24

SERIES_IN_DAY == 30

\* how many points more than a tier holds the caller may append
MaxOverflow == 2

\* how many append calls are made when they come at arbitrary moments
MaxSeriesAppends == 3

\* None in last_sample_time
NoTime == -1

\* Duration::from_secs, in the unit of the clock (a tenth of a second)
FromSecs(secs) == secs * 10

\* the time that passes between the start of two append calls:
\* 0.5 s, 1 s, 30 s, 60 s, 1 h, 1 day
Gaps == {5, FromSecs(1), FromSecs(30), FromSecs(60), FromSecs(3600), FromSecs(86400)}

TierNames == {"second", "minute", "hour", "day"}

\* the max_size that append hands to add_to_series for each tier
Capacity(tier) ==
    CASE tier = "second" -> SERIES_IN_SECOND
      [] tier = "minute" -> SERIES_IN_MINUTE
      [] tier = "hour" -> SERIES_IN_HOUR
      [] tier = "day" -> SERIES_IN_DAY

\* DataPoint::new
DataPoint(value, timestamp) == [value |-> value, timestamp |-> timestamp]

NoPoint == DataPoint(0, NoTime)

NoFlags == [second |-> FALSE, minute |-> FALSE, hour |-> FALSE, day |-> FALSE]

IdleAppender == [pc |-> "idle", point |-> NoPoint, now |-> NoTime, flags |-> NoFlags]

IdleDescriber == [pc |-> "idle", second |-> <<>>, minute |-> <<>>, hour |-> <<>>]

\* the time since the clock started
DurationSinceStart(now, earlier) == now

\* Instant::duration_since: zero when `earlier` is later than self
DurationSince(now, earlier) == IF now >= earlier THEN now - earlier ELSE 0

(***************************************************************************)
(* Series::append, lines 97-108: the should_sample_* flags.  Without a     *)
(* last_sample_time only should_sample_second is set.                      *)
(***************************************************************************)
\* every should_sample_* flag starts out true
FreshFlagsAll == [second |-> TRUE, minute |-> TRUE, hour |-> TRUE, day |-> TRUE]

FreshFlags == [second |-> TRUE, minute |-> FALSE, hour |-> FALSE, day |-> FALSE]

\* every tier is gated on one second
ShouldSampleEverySecond(last_time, now) ==
    IF last_time = NoTime THEN FreshFlags
    ELSE LET since == DurationSince(now, last_time)
         IN  [second |-> since >= FromSecs(1), minute |-> since >= FromSecs(1),
              hour |-> since >= FromSecs(1), day |-> since >= FromSecs(1)]

ShouldSample(last_time, now) ==
    IF last_time = NoTime THEN FreshFlags
    ELSE LET since == DurationSince(now, last_time)
         IN  [second |-> since >= FromSecs(1),
              minute |-> since >= FromSecs(60),
              hour   |-> since >= FromSecs(3600),
              day    |-> since >= FromSecs(86400)]

\* a full tier drops the point that was just pushed
AddToSeriesDropsNewest(series, point, max_size) ==
    LET pushed == Append(series, point)
    IN  IF Len(pushed) > max_size THEN SubSeq(pushed, 1, max_size) ELSE pushed

\* Series::add_to_series: push, then remove(0) when over max_size
AddToSeries(series, point, max_size) ==
    LET pushed == Append(series, point)
    IN  IF Len(pushed) > max_size THEN Tail(pushed) ELSE pushed

\* the steps of append after the flags are known, in program order
Stages == <<"mark", "second", "minute", "hour", "day">>

StageFlag(stage, flags) ==
    CASE stage \in {"mark", "second"} -> flags.second
      [] stage = "minute" -> flags.minute
      [] stage = "hour" -> flags.hour
      [] stage = "day" -> flags.day

\* the first step from the i-th on whose `if should_sample_*` is taken
RECURSIVE NextStage(_, _)
NextStage(i, flags) ==
    IF i > Len(Stages) THEN "idle"
    ELSE IF StageFlag(Stages[i], flags) THEN Stages[i]
    ELSE NextStage(i + 1, flags)

StageIndex(stage) == CHOOSE i \in 1..Len(Stages) : Stages[i] = stage

\* append line 90: DataPoint::now(value) reads the system time
AppendBegin(t, gap) ==
    /\ appender[t].pc = "idle"
    /\ clock' = clock + gap
    /\ appends' = appends + 1
    /\ appender' = [appender EXCEPT ![t] =
            [pc |-> "last", point |-> DataPoint(appends', clock'),
             now |-> NoTime, flags |-> NoFlags]]
    /\ UNCHANGED <<tiervars, last_point, last_sample_time, describer, se_out,
                   inserted, marks, cadence>>
    /\ UNCHANGED nonSeries

\* append lines 93-96: last_point is overwritten, Instant::now() is read
AppendLastPoint(t) ==
    /\ appender[t].pc = "last"
    /\ last_point' = appender[t].point
    /\ appender' = [appender EXCEPT ![t].pc = "gate", ![t].now = clock]
    /\ UNCHANGED <<tiervars, last_sample_time, clock, describer, se_out,
                   inserted, marks, cadence, appends>>
    /\ UNCHANGED nonSeries

\* append lines 97-108: last_sample_time is read and the flags are set
AppendGate(t) ==
    /\ appender[t].pc = "gate"
    /\ LET flags == ShouldSample(last_sample_time, appender[t].now)
       IN  appender' = [appender EXCEPT ![t].flags = flags,
                                        ![t].pc = NextStage(1, flags)]
    /\ UNCHANGED <<tiervars, last_point, last_sample_time, clock, describer,
                   se_out, inserted, marks, cadence, appends>>
    /\ UNCHANGED nonSeries

\* append lines 111-113: last_sample_time = Some(now)
AppendMark(t) ==
    /\ appender[t].pc = "mark"
    /\ last_sample_time' = appender[t].now
    /\ marks' = marks \cup {appender[t].now}
    /\ appender' = [appender EXCEPT ![t].pc = NextStage(2, appender[t].flags)]
    /\ UNCHANGED <<tiervars, last_point, clock, describer, se_out, inserted,
                   cadence, appends>>
    /\ UNCHANGED nonSeries

\* append lines 116-130: one add_to_series call
Pushed(tier, series, a) ==
    IF a.pc = tier THEN AddToSeries(series, a.point, Capacity(tier)) ELSE series

AppendPush(t) ==
    /\ appender[t].pc \in TierNames
    /\ second_points' = Pushed("second", second_points, appender[t])
    /\ minute_points' = Pushed("minute", minute_points, appender[t])
    /\ hour_points' = Pushed("hour", hour_points, appender[t])
    /\ day_points' = Pushed("day", day_points, appender[t])
    /\ inserted' = [inserted EXCEPT ![appender[t].pc] = Append(@, appender[t].point)]
    /\ appender' = [appender EXCEPT ![t].pc =
            NextStage(StageIndex(appender[t].pc) + 1, appender[t].flags)]
    /\ UNCHANGED <<last_point, last_sample_time, clock, describer, se_out,
                   marks, cadence, appends>>
    /\ UNCHANGED nonSeries

(***************************************************************************)
(* Series::describe: the four tiers are copied one after the other, each   *)
(* under its own read lock, and then written out.                          *)
(***************************************************************************)
\* describe_series_data: the timestamps, then the values, of one copy
DescribeSeriesData(points) ==
    [timestamps |-> [i \in 1..Len(points) |-> points[i].timestamp],
     values |-> [i \in 1..Len(points) |-> points[i].value]]

NoOutput ==
    [described |-> FALSE, second |-> DescribeSeriesData(<<>>),
     minute |-> DescribeSeriesData(<<>>), hour |-> DescribeSeriesData(<<>>),
     day |-> DescribeSeriesData(<<>>)]

DescribeCopy ==
    /\ describer.pc \in {"idle", "minute", "hour"}
    /\ describer' =
         CASE describer.pc = "idle" ->
                [describer EXCEPT !.pc = "minute", !.second = second_points]
           [] describer.pc = "minute" ->
                [describer EXCEPT !.pc = "hour", !.minute = minute_points]
           [] describer.pc = "hour" ->
                [describer EXCEPT !.pc = "day", !.hour = hour_points]
    /\ UNCHANGED <<tiervars, last_point, last_sample_time, clock, appender,
                   se_out, inserted, marks, cadence, appends>>
    /\ UNCHANGED nonSeries

DescribeWrite ==
    /\ describer.pc = "day"
    /\ se_out' = [described |-> TRUE,
                  second |-> DescribeSeriesData(describer.second),
                  minute |-> DescribeSeriesData(describer.minute),
                  hour |-> DescribeSeriesData(describer.hour),
                  day |-> DescribeSeriesData(day_points)]
    /\ describer' = IdleDescriber
    /\ UNCHANGED <<tiervars, last_point, last_sample_time, clock, appender,
                   inserted, marks, cadence, appends>>
    /\ UNCHANGED nonSeries

\* Series::new
SeriesNew ==
    /\ second_points = <<>> /\ minute_points = <<>>
    /\ hour_points = <<>> /\ day_points = <<>>
    /\ last_point = NoPoint
    /\ last_sample_time = NoTime
    /\ clock = 0
    /\ appends = 0
    /\ appender = [t \in Threads |-> IdleAppender]
    /\ describer = IdleDescriber
    /\ se_out = NoOutput
    /\ inserted = [tier \in TierNames |-> <<>>]
    /\ marks = {}

\* a Series nobody appends to
SeriesIdle == SeriesNew /\ cadence = Gaps

(***************************************************************************)
(* variable.rs: EXPOSED_VARS and the expose / hide methods of Variable,    *)
(* as IntRecorder (recorder.rs) and Adder (reducer.rs) implement them.     *)
(***************************************************************************)
\* how many Variable objects the program creates
NVars == 2

VarIds == 1..NVars

\* the address an object has after its owner moved it
MovedAddr(o) == o + NVars

Kinds == {"IntRecorder", "Adder"}

Prefixes == {"", "p"}

BaseNames == {"x"}

\* default_expose_impl lines 92-96
FullName(prefix, name) == IF prefix = "" THEN name ELSE prefix \o "_" \o name

FullNames == {FullName(prefix, name) : prefix \in Prefixes, name \in BaseNames}

\* no entry under a key of EXPOSED_VARS
NoEntry == [var_ptr |-> 0, type_id |-> "", by |-> 0]

\* the name a fresh object has: Reducer::new gets one from its caller
InitialName(kind) == IF kind = "Adder" THEN "adder" ELSE ""

\* Self in default_expose_impl: Adder::expose_impl hands over to its inner Reducer
ExposeTypeId(kind) == IF kind = "Adder" THEN "Reducer" ELSE kind

\* Self in default_hide: no implementor hands hide over
HideTypeId(kind) == kind

\* default_expose_impl lines 99-103; `by` remembers which object made the entry
VarEntry(o) ==
    [var_ptr |-> v_addr[o], type_id |-> ExposeTypeId(v_kind[o]), by |-> o]

IdleCall == [pc |-> "idle", obj |-> 0, name |-> "", entry |-> NoEntry]

NoCall == [op |-> "none", obj |-> 0, name |-> "", status |-> 0, hidden |-> FALSE]

\* no thread is inside expose or hide of object o
Unborrowed(o) == \A t \in Threads : vcall[t].pc = "idle" \/ vcall[t].obj # o

\* a taken name is not refused
ExposeStatusAlwaysZero(table, full_name) == 0

\* default_expose_impl line 105: -1 when the key is there
ExposeStatus(table, full_name) == IF table[full_name] # NoEntry THEN -1 ELSE 0

\* expose / expose_as up to EXPOSED_VARS.contains_key
ExposeCheck(t, o, prefix, name) ==
    /\ vcall[t].pc = "idle"
    /\ v_live[o]
    /\ LET full_name == FullName(prefix, name)
           status == ExposeStatus(exposed_vars, full_name)
       IN  IF status = 0
           THEN /\ vcall' = [vcall EXCEPT ![t] =
                        [pc |-> "insert", obj |-> o, name |-> full_name,
                         entry |-> VarEntry(o)]]
                /\ UNCHANGED vret
           ELSE /\ vret' = [op |-> "expose", obj |-> o, name |-> full_name,
                            status |-> status, hidden |-> FALSE]
                /\ UNCHANGED vcall
    /\ UNCHANGED <<exposed_vars, v_kind, v_live, v_addr, v_name>>
    /\ UNCHANGED nonRegistry

\* EXPOSED_VARS.insert, then expose_impl stores the name and returns 0
ExposeInsert(t) ==
    /\ vcall[t].pc = "insert"
    /\ exposed_vars' = [exposed_vars EXCEPT ![vcall[t].name] = vcall[t].entry]
    /\ v_name' = [v_name EXCEPT ![vcall[t].obj] = vcall[t].name]
    /\ vret' = [op |-> "expose", obj |-> vcall[t].obj, name |-> vcall[t].name,
                status |-> 0, hidden |-> FALSE]
    /\ vcall' = [vcall EXCEPT ![t] = IdleCall]
    /\ UNCHANGED <<v_kind, v_live, v_addr>>
    /\ UNCHANGED nonRegistry

\* the entry stays in the table
RemovedNothing(table, full_name) == table

\* EXPOSED_VARS.remove
Removed(table, full_name) == [table EXCEPT ![full_name] = NoEntry]

\* default_hide lines 54-59: the name, and EXPOSED_VARS.remove
HideRemove(t, o) ==
    /\ vcall[t].pc = "idle"
    /\ v_live[o]
    /\ IF v_name[o] = "" \/ v_name[o] \notin FullNames
          \/ exposed_vars[v_name[o]] = NoEntry
       THEN /\ vret' = [op |-> "hide", obj |-> o, name |-> v_name[o],
                        status |-> 0, hidden |-> FALSE]
            /\ UNCHANGED <<vcall, exposed_vars>>
       ELSE /\ vcall' = [vcall EXCEPT ![t] =
                    [pc |-> "compare", obj |-> o, name |-> v_name[o],
                     entry |-> exposed_vars[v_name[o]]]]
            /\ exposed_vars' = Removed(exposed_vars, v_name[o])
            /\ UNCHANGED vret
    /\ UNCHANGED <<v_kind, v_live, v_addr, v_name>>
    /\ UNCHANGED nonRegistry

\* whatever was removed counts as the caller's
SameVariableAlways(entry, o) == TRUE

\* default_hide lines 61-63: the entry is the caller's
SameVariable(entry, o) ==
    entry.var_ptr = v_addr[o] /\ entry.type_id = HideTypeId(v_kind[o])

\* default_hide lines 61-71: true, or the entry is put back and false
HideCompare(t) ==
    /\ vcall[t].pc = "compare"
    /\ LET same == SameVariable(vcall[t].entry, vcall[t].obj)
       IN  /\ exposed_vars' = IF same THEN exposed_vars
                              ELSE [exposed_vars EXCEPT ![vcall[t].name] = vcall[t].entry]
           /\ vret' = [op |-> "hide", obj |-> vcall[t].obj, name |-> vcall[t].name,
                       status |-> 0, hidden |-> same]
    /\ vcall' = [vcall EXCEPT ![t] = IdleCall]
    /\ UNCHANGED <<v_kind, v_live, v_addr, v_name>>
    /\ UNCHANGED nonRegistry

\* Variable::is_hidden: self.name().is_empty()
IsHidden(o) == v_name[o] = ""

\* the owner moves the object (as with_name does when it returns it)
MoveVar(o) ==
    /\ v_live[o] /\ Unborrowed(o) /\ v_addr[o] # MovedAddr(o)
    /\ v_addr' = [v_addr EXCEPT ![o] = MovedAddr(o)]
    /\ UNCHANGED <<exposed_vars, v_kind, v_live, v_name, vcall, vret>>
    /\ UNCHANGED nonRegistry

\* the object is dropped: no implementor has a Drop that hides it
DropVar(o) ==
    /\ v_live[o] /\ Unborrowed(o)
    /\ v_live' = [v_live EXCEPT ![o] = FALSE]
    /\ UNCHANGED <<exposed_vars, v_kind, v_addr, v_name, vcall, vret>>
    /\ UNCHANGED nonRegistry

\* EXPOSED_VARS is empty and the objects, all of one type, are fresh, each at
\* its own address
RegistryInit ==
    /\ exposed_vars = [n \in FullNames |-> NoEntry]
    /\ \E kind \in Kinds : v_kind = [o \in VarIds |-> kind]
    /\ v_live = [o \in VarIds |-> TRUE]
    /\ v_addr = [o \in VarIds |-> o]
    /\ v_name = [o \in VarIds |-> InitialName(v_kind[o])]
    /\ vcall = [t \in Threads |-> IdleCall]
    /\ vret = NoCall

\* no Variable is used
RegistryIdleInit == RegistryInit /\ v_kind = [o \in VarIds |-> "IntRecorder"]

(***************************************************************************)
(* recorder.rs IntRecorder: one Stat per thread behind its own mutex.      *)
(***************************************************************************)
\* the samples handed to add
Samples == {-1, 2}

\* Stat::new
Stat(sum, num) == [sum |-> sum, num |-> num]

\* Stat::default
StatDefault == Stat(0, 0)

\* a thread that has no Agent in tls yet
NoShard == Stat(0, -1)

\* impl Add / AddAssign for Stat
StatAdd(lhs, rhs) == Stat(lhs.sum + rhs.sum, lhs.num + rhs.num)

\* the sample is added to the sum and not counted
AddSampleUncounted(stat, sample) == Stat(stat.sum + sample, stat.num)

\* IntRecorder::add lines 158-160: sum += sample, num += 1
AddSample(stat, sample) == Stat(stat.sum + sample, stat.num + 1)

\* tls.get_or: the thread's Agent, made with Stat::default() when absent
GetOr(stat) == IF stat = NoShard THEN StatDefault ELSE stat

IdleReader == [pc |-> "idle", op |-> "none", i |-> 0, result |-> StatDefault]

\* IntRecorder::add, under the lock of the caller's own Agent
RecorderAdd(t, sample) ==
    /\ ir_call[t].pc = "idle"
    /\ ir_tls' = [ir_tls EXCEPT ![t] = AddSample(GetOr(@), sample)]
    /\ ir_since' = AddSample(ir_since, sample)
    /\ ir_all' = AddSample(ir_all, sample)
    /\ UNCHANGED <<ir_call, ir_ret, ir_taken>>
    /\ UNCHANGED nonRecorder

\* get_value line 176, entered directly or from reset line 188
RecorderBegin(t, call) ==
    /\ ir_call[t].pc = "idle"
    /\ ir_call' = [ir_call EXCEPT ![t] =
            [pc |-> "fold", op |-> call, i |-> 1, result |-> StatDefault]]
    /\ UNCHANGED <<ir_tls, ir_ret, ir_since, ir_all, ir_taken>>
    /\ UNCHANGED nonRecorder

\* get_value lines 178-181 for the i-th thread's Agent: lock, clone, +=
FoldAgent(result, stat) == IF stat = NoShard THEN result ELSE StatAdd(result, stat)

\* one pass of the loop of get_value; after the last one get_value returns
\* to its caller or to reset, which starts its own loop
RecorderFold(t) ==
    /\ ir_call[t].pc = "fold"
    /\ LET c == ir_call[t]
           result == FoldAgent(c.result, ir_tls[c.i])
       IN  IF c.i < NThreads
           THEN /\ ir_call' = [ir_call EXCEPT ![t].i = c.i + 1, ![t].result = result]
                /\ UNCHANGED <<ir_ret, ir_since>>
           ELSE IF c.op = "reset"
           THEN /\ ir_call' = [ir_call EXCEPT ![t].pc = "clear", ![t].i = 1,
                                              ![t].result = result]
                /\ UNCHANGED <<ir_ret, ir_since>>
           ELSE /\ ir_call' = [ir_call EXCEPT ![t] = IdleReader]
                /\ ir_ret' = [op |-> "get", val |-> result, expected |-> ir_since]
                /\ UNCHANGED ir_since
    /\ UNCHANGED <<ir_tls, ir_all, ir_taken>>
    /\ UNCHANGED nonRecorder

\* reset lines 192-193 for one Agent: lock, value = Stat::default()
ClearAgent(stat) == IF stat = NoShard THEN stat ELSE StatDefault

\* one pass of the loop of reset; after the last one reset returns
RecorderClear(t) ==
    /\ ir_call[t].pc = "clear"
    /\ LET c == ir_call[t]
       IN  /\ ir_tls' = [ir_tls EXCEPT ![c.i] = ClearAgent(@)]
           /\ IF c.i < NThreads
              THEN /\ ir_call' = [ir_call EXCEPT ![t].i = c.i + 1]
                   /\ UNCHANGED <<ir_ret, ir_since, ir_taken>>
              ELSE /\ ir_call' = [ir_call EXCEPT ![t] = IdleReader]
                   /\ ir_ret' = [op |-> "reset", val |-> c.result,
                                 expected |-> ir_since]
                   /\ ir_since' = StatDefault
                   /\ ir_taken' = StatAdd(ir_taken, c.result)
    /\ UNCHANGED ir_all
    /\ UNCHANGED nonRecorder

\* IntRecorder::new
RecorderInit ==
    /\ ir_tls = [t \in Threads |-> NoShard]
    /\ ir_call = [t \in Threads |-> IdleReader]
    /\ ir_ret = [op |-> "new", val |-> StatDefault, expected |-> StatDefault]
    /\ ir_since = StatDefault
    /\ ir_all = StatDefault
    /\ ir_taken = StatDefault

(***************************************************************************)
(* examples/create_weak_when_init.rs: two ways to build a sampler that     *)
(* keeps a Weak of itself and pushes it into the shared REGISTRY from its  *)
(* constructor.  Sampler 1 is built by MySampler::new, sampler 2 by        *)
(* FlawedSampler::new; other threads may look into REGISTRY at any time.   *)
(***************************************************************************)
ExampleIds == {1, 2}

\* main: MySampler::new(42), then FlawedSampler::new(42)
ExampleKind(o) == IF o = 1 THEN "MySampler" ELSE "FlawedSampler"

NoObservation == [obj |-> 0, upgraded |-> FALSE, self_set |-> FALSE, dropped |-> FALSE]

\* Arc::new_cyclic: the allocation exists and its Weak is handed to the
\* closure; no strong handle exists before the closure has returned
CyclicAlloc(o) ==
    /\ ExampleKind(o) = "MySampler" /\ ex_pc[o] = "none"
    /\ ex_pc' = [ex_pc EXCEPT ![o] = "closure"]
    /\ UNCHANGED <<ex_registry, ex_strong, ex_weak_self, ex_obs>>
    /\ UNCHANGED nonExample

\* MySampler::new lines 22-25: weak_self: Mutex::new(Some(weak.clone()))
CyclicInit(o) ==
    /\ ex_pc[o] = "closure"
    /\ ex_weak_self' = [ex_weak_self EXCEPT ![o] = o]
    /\ ex_pc' = [ex_pc EXCEPT ![o] = "after_init"]
    /\ UNCHANGED <<ex_registry, ex_strong, ex_obs>>
    /\ UNCHANGED nonExample

\* after_init, called inside the closure: REGISTRY.lock().unwrap().push(weak)
AfterInit(o) ==
    /\ ex_pc[o] = "after_init"
    /\ ex_registry' = Append(ex_registry, ex_weak_self[o])
    /\ ex_pc' = [ex_pc EXCEPT ![o] = "returning"]
    /\ UNCHANGED <<ex_strong, ex_weak_self, ex_obs>>
    /\ UNCHANGED nonExample

\* the closure returns `this`; new_cyclic stores it and sets the strong count
CyclicReturn(o) ==
    /\ ExampleKind(o) = "MySampler" /\ ex_pc[o] = "returning"
    /\ ex_strong' = [ex_strong EXCEPT ![o] = TRUE]
    /\ ex_pc' = [ex_pc EXCEPT ![o] = "built"]
    /\ UNCHANGED <<ex_registry, ex_weak_self, ex_obs>>
    /\ UNCHANGED nonExample

\* FlawedSampler::new lines 54-57: Arc::new(Self { weak_self: None, .. })
FlawedAlloc(o) ==
    /\ ExampleKind(o) = "FlawedSampler" /\ ex_pc[o] = "none"
    /\ ex_strong' = [ex_strong EXCEPT ![o] = TRUE]
    /\ ex_pc' = [ex_pc EXCEPT ![o] = "backfill"]
    /\ UNCHANGED <<ex_registry, ex_weak_self, ex_obs>>
    /\ UNCHANGED nonExample

\* lines 60-61: Arc::downgrade(&arc) is stored into arc.weak_self
FlawedBackfill(o) ==
    /\ ex_pc[o] = "backfill"
    /\ ex_weak_self' = [ex_weak_self EXCEPT ![o] = o]
    /\ ex_pc' = [ex_pc EXCEPT ![o] = "push"]
    /\ UNCHANGED <<ex_registry, ex_strong, ex_obs>>
    /\ UNCHANGED nonExample

\* line 66: REGISTRY.lock().unwrap().push(weak), the Weak of line 60
FlawedPush(o) ==
    /\ ex_pc[o] = "push"
    /\ ex_registry' = Append(ex_registry, o)
    /\ ex_pc' = [ex_pc EXCEPT ![o] = "returning"]
    /\ UNCHANGED <<ex_strong, ex_weak_self, ex_obs>>
    /\ UNCHANGED nonExample

\* line 67: arc is returned to the caller
FlawedReturn(o) ==
    /\ ExampleKind(o) = "FlawedSampler" /\ ex_pc[o] = "returning"
    /\ ex_pc' = [ex_pc EXCEPT ![o] = "built"]
    /\ UNCHANGED <<ex_registry, ex_strong, ex_weak_self, ex_obs>>
    /\ UNCHANGED nonExample

\* main lines 86, 97: `sampler` goes out of scope, the last strong handle
ExampleDrop(o) ==
    /\ ex_pc[o] = "built"
    /\ ex_strong' = [ex_strong EXCEPT ![o] = FALSE]
    /\ ex_pc' = [ex_pc EXCEPT ![o] = "dropped"]
    /\ UNCHANGED <<ex_registry, ex_weak_self, ex_obs>>
    /\ UNCHANGED nonExample

\* another thread: REGISTRY.lock(), registry[i].upgrade() and, through the
\* Arc it got, the sampler's weak_self
Observe(i) ==
    /\ i \in 1..Len(ex_registry)
    /\ LET o == ex_registry[i]
       IN  ex_obs' = [obj |-> o, upgraded |-> ex_strong[o],
                      self_set |-> ex_strong[o] /\ ex_weak_self[o] # None,
                      dropped |-> ex_pc[o] = "dropped"]
    /\ UNCHANGED <<ex_registry, ex_pc, ex_strong, ex_weak_self>>
    /\ UNCHANGED nonExample

ExampleInit ==
    /\ ex_registry = <<>>
    /\ ex_pc = [o \in ExampleIds |-> "none"]
    /\ ex_strong = [o \in ExampleIds |-> FALSE]
    /\ ex_weak_self = [o \in ExampleIds |-> None]
    /\ ex_obs = NoObservation

ReducerInit ==
    /\ identity \in Identities
    /\ op \in Ops
    /\ next_id = 1
    /\ tls = [t \in Threads |-> NoAgent]
    /\ ret = [op |-> "new", thread |-> 0, val |-> 0, prev_op |-> "new", prev_val |-> 0]
    /\ added = <<>>

\* A Reducer nobody uses: Reducer::new(0, AddTo::default(), ..).
ReducerIdle ==
    /\ identity = 0 /\ op = "add" /\ next_id = 1
    /\ tls = [t \in Threads |-> NoAgent]
    /\ ret = [op |-> "new", thread |-> 0, val |-> 0, prev_op |-> "new", prev_val |-> 0]
    /\ added = <<>>

vars == <<rvars, svars, ssvars, ss_inserted, sevars, vvars, irvars, rlvars, exvars>>

(***************************************************************************)
(* SpecReducer: one Reducer, used from every thread.                       *)
(***************************************************************************)
Init == ReducerInit /\ SamplerInit /\ SeriesSamplerInit /\ SeriesIdle /\ RegistryIdleInit /\ RecorderInit /\ ReducerLockInit /\ ExampleInit

ReducerNext ==
    \/ \E t \in Threads, v \in Values : Add(t, v)
    \/ \E t \in Threads : GetValue(t)
    \/ \E t \in Threads : Reset(t)

SpecReducer == Init /\ [][ReducerNext]_vars

(***************************************************************************)
(* SpecReducerLock: the same Reducer, with the steps of each call at which *)
(* the combiner mutex changes hands.                                       *)
(***************************************************************************)
ReducerLockNext ==
    \/ \E t \in Threads, v \in Values : ReducerCall(t, "add", v)
    \/ \E t \in Threads, call \in {"get", "reset"} : ReducerCall(t, call, 0)
    \/ \E t \in Threads : ReducerReadOp(t)
    \/ \E t \in Threads : ReducerLock(t)
    \/ \E t \in Threads : ReducerUnlock(t)

SpecReducerLock == Init /\ [][ReducerLockNext]_vars

(***************************************************************************)
(* SpecExample: the two constructors of the example run on two threads     *)
(* while other threads look into REGISTRY.  A constructor that has been    *)
(* called runs to its end.                                                 *)
(***************************************************************************)
ExampleNew(o) ==
    \/ CyclicAlloc(o) \/ CyclicInit(o) \/ AfterInit(o) \/ CyclicReturn(o)
    \/ FlawedAlloc(o) \/ FlawedBackfill(o) \/ FlawedPush(o) \/ FlawedReturn(o)

ExampleNext ==
    \/ \E o \in ExampleIds : ExampleNew(o)
    \/ \E o \in ExampleIds : ExampleDrop(o)
    \/ \E i \in 1..Cardinality(ExampleIds) : Observe(i)

SpecExample == Init /\ [][ExampleNext]_vars

FairSpecExample == SpecExample /\ \A o \in ExampleIds : WF_vars(ExampleNew(o))

(***************************************************************************)
(* SpecSampler: the sampler registry, its driver threads and the           *)
(* ReducerSamplers that user threads create, schedule and drop.            *)
(***************************************************************************)
SamplerStart == ReducerIdle /\ SamplerInit /\ SeriesSamplerInit /\ SeriesIdle /\ RegistryIdleInit /\ RecorderInit /\ ReducerLockInit /\ ExampleInit

DriverStep(d) ==
    \/ DriverWake(d)
    \/ DriverCheck(d)
    \/ DriverTakeBegin(d)
    \/ DriverReentrantSchedule(d)
    \/ DriverTakeEnd(d)
    \/ DriverTakePanics(d)
    \/ DriverRelock(d)
    \/ DriverPrune(d)

SamplerNext ==
    \/ \E s \in SamplerIds : New(s)
    \/ \E s, c \in SamplerIds : Clone(s, c)
    \/ \E s \in SamplerIds : DropHandle(s)
    \/ \E s \in SamplerIds : DropOwner(s)
    \/ \E t \in Threads, s \in SamplerIds : ScheduleLock(t, s)
    \/ \E t \in Threads : Register(t)
    \/ \E d \in DriverIds : DriverStep(d)

SpecSampler == SamplerStart /\ [][SamplerNext]_vars

(***************************************************************************)
(* SpecSamplerHandles: SpecSampler with the upgrade() calls that the       *)
(* lock holder makes on single entries taken as steps of their own, so     *)
(* that user threads run between an upgrade and the drop of its handle.    *)
(***************************************************************************)
SamplerHandlesNext ==
    \/ SamplerNext
    \/ \E s \in SamplerIds : UpgradeEntry(s)
    \/ DropUpgraded

SpecSamplerHandles == SamplerStart /\ [][SamplerHandlesNext]_vars

(***************************************************************************)
(* The driver thread is an OS thread: it keeps running, and a thread that  *)
(* waits for the registry mutex gets it when it is released again and      *)
(* again.  A register_sampler call that holds the mutex finishes.          *)
(***************************************************************************)
SamplerFairness ==
    /\ \A d \in DriverIds : SF_vars(DriverWake(d)) /\ SF_vars(DriverRelock(d))
    /\ \A d \in DriverIds : WF_vars(DriverCheck(d) \/ DriverTakeBegin(d)
                                     \/ DriverTakeEnd(d) \/ DriverTakePanics(d)
                                     \/ DriverPrune(d))
    /\ \A t \in Threads : WF_vars(Register(t))

FairSpecSampler == SpecSampler /\ SamplerFairness

(***************************************************************************)
(* SpecDestroy: the Sampler objects by themselves; user threads call       *)
(* take_sample, destroy, clone, append and describe in any order.          *)
(***************************************************************************)
MaxAppends == 2

\* the user thread that calls take_sample() itself
Caller == CHOOSE t \in Threads : \A u \in Threads : t <= u

\* the values appended to the SeriesSampler
SampleValues == {7}

DestroyNext ==
    \/ \E s \in SamplerIds : New(s)
    \/ \E s, c \in SamplerIds : Clone(s, c)
    \/ \E s \in SamplerIds : DropHandle(s)
    \/ \E s \in SamplerIds : DropOwner(s)
    \/ \E s \in SamplerIds : Destroy(s)
    \/ \E s \in SamplerIds : AppTakeBegin(Caller, s)
    \/ AppTakeEnd(Caller)
    \/ \E v \in SampleValues : Len(ss_data) < MaxAppends /\ SeriesAppend(v)
    \/ SeriesDescribe
    \/ SeriesDestroy

SpecDestroy == SamplerStart /\ [][DestroyNext]_vars

(***************************************************************************)
(* SpecSeries: one thread owns a Series and a SeriesSampler.  It appends   *)
(* each value to both and calls describe between appends.  Either the      *)
(* appends come at a fixed cadence until every tier has overflowed, or     *)
(* each gap is chosen anew and a few appends are made.                     *)
(***************************************************************************)
Cadences == {{gap} : gap \in Gaps} \cup {Gaps}

SeriesStart ==
    /\ ReducerIdle /\ SamplerInit /\ SeriesSamplerInit /\ SeriesNew
    /\ RegistryIdleInit /\ RecorderInit /\ ReducerLockInit /\ ExampleInit
    /\ cadence \in Cadences

AppendLimit ==
    IF cadence = Gaps THEN MaxSeriesAppends ELSE SERIES_IN_SECOND + MaxOverflow

CallerIdle == appender[Caller].pc = "idle" /\ describer.pc = "idle"

SeriesNext ==
    \/ \E gap \in cadence :
          /\ CallerIdle /\ Len(ss_inserted) = appends /\ appends < AppendLimit
          /\ AppendBegin(Caller, gap)
    \/ AppendLastPoint(Caller)
    \/ AppendGate(Caller)
    \/ AppendMark(Caller)
    \/ AppendPush(Caller)
    \/ appender[Caller].pc = "idle" /\ Len(ss_inserted) = appends /\ DescribeCopy
    \/ DescribeWrite
    \/ CallerIdle /\ Len(ss_inserted) < appends /\ SeriesAppend(Len(ss_inserted) + 1)

SpecSeries == SeriesStart /\ [][SeriesNext]_vars

(***************************************************************************)
(* SpecSeriesRace: every thread appends to one Series at moments of its    *)
(* choice while another thread runs describe.                              *)
(***************************************************************************)
MaxRaceAppends == 2

SeriesRaceStart ==
    ReducerIdle /\ SamplerInit /\ SeriesSamplerInit /\ SeriesIdle /\ RegistryIdleInit /\ RecorderInit /\ ReducerLockInit /\ ExampleInit

SeriesRaceNext ==
    \/ \E t \in Threads, gap \in cadence :
          appends < MaxRaceAppends /\ AppendBegin(t, gap)
    \/ \E t \in Threads : AppendLastPoint(t)
    \/ \E t \in Threads : AppendGate(t)
    \/ \E t \in Threads : AppendMark(t)
    \/ \E t \in Threads : AppendPush(t)
    \/ DescribeCopy
    \/ DescribeWrite

SpecSeriesRace == SeriesRaceStart /\ [][SeriesRaceNext]_vars

(***************************************************************************)
(* SpecRegistry: one thread exposes, hides, moves and drops a few Variable *)
(* objects, one call after the other.                                      *)
(***************************************************************************)
RegistryStart ==
    /\ ReducerIdle /\ SamplerInit /\ SeriesSamplerInit /\ SeriesIdle
    /\ RegistryInit /\ RecorderInit /\ ReducerLockInit /\ ExampleInit

RegistryNext ==
    \/ \E o \in VarIds, prefix \in Prefixes, name \in BaseNames :
          ExposeCheck(Caller, o, prefix, name)
    \/ ExposeInsert(Caller)
    \/ \E o \in VarIds : HideRemove(Caller, o)
    \/ HideCompare(Caller)
    \/ \E o \in VarIds : MoveVar(o)
    \/ \E o \in VarIds : DropVar(o)

SpecRegistry == RegistryStart /\ [][RegistryNext]_vars

(***************************************************************************)
(* SpecRegistryRace: every thread calls expose, expose_as and hide on the  *)
(* objects, which stay where they are; the calls overlap.                  *)
(***************************************************************************)
RegistryRaceNext ==
    \/ \E t \in Threads, o \in VarIds, prefix \in Prefixes, name \in BaseNames :
          ExposeCheck(t, o, prefix, name)
    \/ \E t \in Threads : ExposeInsert(t)
    \/ \E t \in Threads, o \in VarIds : HideRemove(t, o)
    \/ \E t \in Threads : HideCompare(t)

SpecRegistryRace == RegistryStart /\ [][RegistryRaceNext]_vars

(***************************************************************************)
(* SpecRecorder: the threads use one IntRecorder, one call at a time.      *)
(***************************************************************************)
RecorderStart ==
    /\ ReducerIdle /\ SamplerInit /\ SeriesSamplerInit /\ SeriesIdle
    /\ RegistryIdleInit /\ RecorderInit /\ ReducerLockInit /\ ExampleInit

NoRecorderCall == \A t \in Threads : ir_call[t].pc = "idle"

RecorderNext ==
    \/ \E t \in Threads, sample \in Samples :
          NoRecorderCall /\ ir_all.num < MaxAdds /\ RecorderAdd(t, sample)
    \/ \E t \in Threads, call \in {"get", "reset"} :
          NoRecorderCall /\ RecorderBegin(t, call)
    \/ \E t \in Threads : RecorderFold(t)
    \/ \E t \in Threads : RecorderClear(t)

SpecRecorder == RecorderStart /\ [][RecorderNext]_vars

(***************************************************************************)
(* SpecRecorderRace: the threads add to the IntRecorder while others are   *)
(* inside get_value or reset.                                              *)
(***************************************************************************)
RecorderRaceNext ==
    \/ \E t \in Threads, sample \in Samples :
          ir_all.num < MaxAdds /\ RecorderAdd(t, sample)
    \/ \E t \in Threads, call \in {"get", "reset"} : RecorderBegin(t, call)
    \/ \E t \in Threads : RecorderFold(t)
    \/ \E t \in Threads : RecorderClear(t)

SpecRecorderRace == RecorderStart /\ [][RecorderRaceNext]_vars

(***************************************************************************)
(* Claims.                                                                 *)
(***************************************************************************)
RECURSIVE Reduce(_, _, _)
Reduce(o, acc, values) ==
    IF values = <<>> THEN acc
    ELSE Reduce(o, Combine(o, acc, Head(values)), Tail(values))

\* identity is a neutral element of the combiner on the values that are added
Neutral(o, ident) ==
    \A v \in Values : Combine(o, ident, v) = v /\ Combine(o, v, ident) = v

(***************************************************************************)
(* C1: whatever the threads that called add, get_value() returns the       *)
(* reduction by the combiner of all the values added, starting from        *)
(* identity (with a sum combiner and identity 0: 5 after add(5), not 0).   *)
(***************************************************************************)
C1_FoldEqualsReduction ==
    (ret.op = "get" /\ Neutral(op, identity))
        => ret.val = Reduce(op, identity, added)

(***************************************************************************)
(* C2: a reset() that directly follows a get_value() returns the value     *)
(* that get_value() returned, and a get_value() that directly follows a    *)
(* reset() returns identity.                                               *)
(***************************************************************************)
C2_ResetSnapshot ==
    /\ (ret.op = "reset" /\ ret.prev_op = "get") => ret.val = ret.prev_val
    /\ (ret.op = "get" /\ ret.prev_op = "reset") => ret.val = identity

C2_ResetAfterGetWithAgents ==
    /\ ret.op = "reset" /\ ret.prev_op = "get"
    /\ \E t \in Threads : tls[t] # NoAgent

(***************************************************************************)
(* C3: at most one driver thread of the registry is alive at any time.     *)
(***************************************************************************)
C3_AtMostOneDriver == Cardinality(AliveDrivers) <= 1

\* A registration holds the lock while the driver, its sweep done, is about
\* to take the lock, find every entry dead and exit.
C3_RegisterRacesExit ==
    \E t \in Threads, d \in DriverIds :
        /\ app[t].pc = "registering"
        /\ dpc[d] = "sweep"
        /\ valid_samplers[d] = <<>>
        /\ samplers # <<>>
        /\ Retain(samplers) = <<>>

(***************************************************************************)
(* C4: is_running is true exactly when a driver thread is alive.           *)
(***************************************************************************)
C4_RunningIffDriverAlive == is_running <=> (AliveDrivers # {})

(***************************************************************************)
(* C5: a registered sampler means a driver thread exists; once no sampler  *)
(* is alive any more, the driver eventually prunes the entries, the        *)
(* collection is empty, is_running is false and no driver is left; and a   *)
(* registration made in that state starts a driver thread.                 *)
(***************************************************************************)
RegistryIdle == samplers = <<>> /\ ~is_running /\ AliveDrivers = {}

C5_RegistryLifecycle ==
    /\ []((samplers # <<>> /\ lock = Free) => AliveDrivers # {})
    /\ (<>[](LiveSamplers = {})) => <>[]RegistryIdle
    /\ [][(RegistryIdle /\ samplers' # <<>>) => AliveDrivers' # {}]_vars

(***************************************************************************)
(* C6: a take_sample() that fails does not end the driver thread: the      *)
(* driver that called it goes on with its sweep.                           *)
(***************************************************************************)
C6_FailureDoesNotKillDriver ==
    [][\A d \in DriverIds : dpc[d] = "in_take" => dpc'[d] \in {"in_take", "sweep"}]_vars

(***************************************************************************)
(* C7: while a take_sample() called by a driver is in progress, that       *)
(* driver does not hold the registry lock.                                 *)
(***************************************************************************)
C7_NoLockAcrossTakeSample ==
    \A d \in DriverIds : dpc[d] = "in_take" => lock # DriverThread(d)

C7_RegisterWhileSampling ==
    \E d \in DriverIds, t \in Threads :
        /\ dpc[d] = "in_take"
        /\ proceed[d]
        /\ app[t].pc = "registering"
        /\ lock = AppThread(t)

(***************************************************************************)
(* C8: no step clears a destroyed flag; once destroy() was called on a     *)
(* ReducerSampler, a take_sample() that starts does not enter the block    *)
(* that reads the owner and calls the error handler; once destroy() was    *)
(* called on a SeriesSampler, append leaves the data as it is and          *)
(* describe writes nothing.                                                *)
(***************************************************************************)
C8_DestroyedIsOneWay ==
    [][/\ \A s \in SamplerIds : destroyed[s] => destroyed'[s]
       /\ ss_destroyed => ss_destroyed'
       /\ \A t \in Threads :
            (app'[t].pc = "in_take" /\ app[t].pc # "in_take"
                /\ destroy_called[app'[t].via]) => ~app'[t].proceed
       /\ ss_destroy_called => (ss_data' = ss_data /\ (ss_out' # ss_out => ss_out' = <<>>))
      ]_vars

C8_TakeSampleAfterDestroy ==
    /\ \E t \in Threads :
          /\ app[t].pc = "in_take"
          /\ destroy_called[app[t].via]
          /\ OwnerAlive(owner[app[t].via])
          /\ ~app[t].proceed
    /\ ss_destroy_called /\ ss_data # <<>> /\ ss_out = <<>>

(***************************************************************************)
(* C9: a take_sample() that the driver starts on a sampler whose owner is  *)
(* gone does not enter the block that reads a value and calls the error    *)
(* handler, and it does not end in a panic.                                *)
(***************************************************************************)
C9_OwnerGoneIsNoOp ==
    [][\A d \in DriverIds :
         /\ (dpc[d] = "sweep" /\ dpc'[d] = "in_take"
                /\ ~OwnerAlive(owner[Head(valid_samplers[d])])) => ~proceed'[d]
         /\ (dpc[d] = "in_take" /\ ~proceed[d]) => dpc'[d] # "panicked"
      ]_vars

C9_SampledWithoutOwner ==
    \E d \in DriverIds :
        /\ dpc[d] = "in_take"
        /\ ~OwnerAlive(owner[cur[d]])
        /\ ~destroyed[cur[d]]
        /\ ~proceed[d]

(***************************************************************************)
(* C10: a sampler built by ReducerSampler::new has weak_self set to        *)
(* itself, and it upgrades while user code holds a strong handle; no       *)
(* schedule() call returns false; the Weak a schedule() call on such a     *)
(* sampler is about to push is the sampler's own and upgrades.             *)
(***************************************************************************)
C10_WeakSelfAlwaysSet ==
    /\ \A s \in SamplerIds : (born[s] /\ from_new[s]) => weak_self[s] = s
    /\ \A s \in SamplerIds :
          (born[s] /\ from_new[s] /\ held[s]) => Upgradable(weak_self[s])
    /\ \A t \in Threads : ~app[t].refused
    /\ \A t \in Threads :
          (app[t].pc = "registering" /\ from_new[app[t].via])
              => (app[t].weak = app[t].via /\ Upgradable(app[t].weak))

C10_ScheduledFromNew ==
    \E t \in Threads :
        /\ app[t].pc = "registering"
        /\ from_new[app[t].via]
        /\ samplers # <<>>


\* the last n elements of seq, all of it when it is shorter
LastN(seq, n) ==
    IF Len(seq) <= n THEN seq ELSE SubSeq(seq, Len(seq) - n + 1, Len(seq))

TierPoints(tier) ==
    CASE tier = "second" -> second_points
      [] tier = "minute" -> minute_points
      [] tier = "hour" -> hour_points
      [] tier = "day" -> day_points

\* the capacities the tiers are documented to have
DocumentedCapacity(tier) ==
    CASE tier = "second" -> 60
      [] tier = "minute" -> 60
      [] tier = "hour" -> 24
      [] tier = "day" -> 30

(***************************************************************************)
(* C11: ring eviction.  Each tier of a Series (60, 60, 24 and 30 points)   *)
(* and the data of a SeriesSampler (60 values) never holds more than its   *)
(* capacity, and holds exactly the most recent `capacity` points that were *)
(* inserted into it, in insertion order.                                   *)
(***************************************************************************)
C11_RingEviction ==
    /\ \A tier \in TierNames :
         /\ Len(TierPoints(tier)) <= DocumentedCapacity(tier)
         /\ TierPoints(tier) = LastN(inserted[tier], DocumentedCapacity(tier))
    /\ Len(ss_data) <= 60
    /\ ss_data = LastN(ss_inserted, 60)

\* every tier and the SeriesSampler have evicted at least one point
C11_EveryRingOverflowed ==
    /\ \A tier \in TierNames : Len(inserted[tier]) > DocumentedCapacity(tier)
    /\ Len(ss_inserted) > 60

(***************************************************************************)
(* C12: tier coupling.  When every append so far came at least 1 s and     *)
(* less than 60 s after the one before (as with one append per 30 s for    *)
(* 10 minutes), every point is in the second tier's history and the        *)
(* minute, hour and day tiers are empty.                                   *)
(***************************************************************************)
SubMinuteGaps(points) ==
    \A i \in 2..Len(points) :
        /\ points[i].timestamp - points[i - 1].timestamp >= FromSecs(1)
        /\ points[i].timestamp - points[i - 1].timestamp < FromSecs(60)

C12_TierCoupling ==
    /\ (Len(inserted["second"]) = appends /\ SubMinuteGaps(inserted["second"]))
         => (minute_points = <<>> /\ hour_points = <<>> /\ day_points = <<>>)
    /\ (CallerIdle /\ \A gap \in cadence : gap >= FromSecs(1) /\ gap < FromSecs(60))
         => (Len(inserted["second"]) = appends /\ SubMinuteGaps(inserted["second"]))

\* 20 appends, one per 30 s, have been made
C12_TenMinutesAtThirtySeconds ==
    /\ cadence = {FromSecs(30)}
    /\ appends = 20
    /\ CallerIdle
    /\ Len(second_points) = 20

(***************************************************************************)
(* C13: shared-watermark gating.  A point that entered the day tier also   *)
(* entered the hour tier, one in the hour tier also the minute tier, one   *)
(* in the minute tier also the second tier; the call that put a point in   *)
(* the second tier stored its instant in last_sample_time; and the first   *)
(* append on a fresh Series enters the second tier only.                   *)
(***************************************************************************)
C13_SharedWatermarkGating ==
    /\ Range(inserted["day"]) \subseteq Range(inserted["hour"])
    /\ Range(inserted["hour"]) \subseteq Range(inserted["minute"])
    /\ Range(inserted["minute"]) \subseteq Range(inserted["second"])
    /\ \A p \in Range(inserted["second"]) : p.timestamp \in marks
    /\ \A tier \in TierNames \ {"second"} :
         \A p \in Range(inserted[tier]) : p.value # 1
    /\ (appends >= 1 /\ CallerIdle) => Head(inserted["second"]).value = 1

\* a later append reached the day tier
C13_PointInEveryTier ==
    /\ inserted["day"] # <<>>
    /\ Len(inserted["second"]) >= 2
    /\ CallerIdle

(***************************************************************************)
(* C14: in what describe writes, the timestamps and the values of a tier   *)
(* have the same length, the i-th timestamp and the i-th value are those   *)
(* of one data point of that tier, and the timestamps never decrease,      *)
(* also while several threads append.                                      *)
(***************************************************************************)
C14_DescribeParallelOrdered ==
    se_out.described =>
        \A tier \in TierNames :
            LET out == se_out[tier]
            IN  /\ Len(out.timestamps) = Len(out.values)
                /\ \A i \in 1..Len(out.timestamps) :
                     DataPoint(out.values[i], out.timestamps[i]) \in Range(inserted[tier])
                /\ \A i \in 2..Len(out.timestamps) :
                     out.timestamps[i - 1] <= out.timestamps[i]
\* the full name is claimed by a live object other than o
ClaimedByOther(o, full_name) ==
    /\ exposed_vars[full_name] # NoEntry
    /\ exposed_vars[full_name].by # o
    /\ v_live[exposed_vars[full_name].by]

\* this step is the return of an expose call with -1
ExposeRefused ==
    /\ vcall[Caller].pc = "idle" /\ vcall'[Caller].pc = "idle"
    /\ vret' # vret /\ vret'.op = "expose" /\ vret'.status = -1

\* this step is an expose call finding the name free
ExposeAdmitted == vcall[Caller].pc = "idle" /\ vcall'[Caller].pc = "insert"

C16_ExposeStatus ==
    [][/\ ExposeRefused => ClaimedByOther(vret'.obj, vret'.name)
       /\ ExposeAdmitted =>
             ~ClaimedByOther(vcall'[Caller].obj, vcall'[Caller].name)
       /\ (vcall[Caller].pc = "insert" /\ vcall'[Caller].pc = "idle")
             => /\ vret'.op = "expose" /\ vret'.status = 0
                /\ exposed_vars'[vret'.name].by = vret'.obj
      ]_vars

(***************************************************************************)
(* C17: get_value() of an IntRecorder returns the sum and the number of    *)
(* the samples added since the last reset ((0, 0) on a fresh recorder);    *)
(* reset() returns the same value, and leaves every Agent at (0, 0).       *)
(***************************************************************************)
C17_RecorderSumAndCount ==
    /\ ir_ret.op \in {"get", "reset"} => ir_ret.val = ir_ret.expected
    /\ (ir_ret.op = "reset" /\ ir_since = StatDefault /\ NoRecorderCall)
         => \A t \in Threads : ir_tls[t] \in {NoShard, StatDefault}

\* a reset has returned the two samples added before it, from two threads
C17_ResetAfterTwoAdds ==
    /\ ir_ret.op = "reset" /\ ir_ret.val.num = 2
    /\ \A t \in Threads : ir_tls[t] = StatDefault
    /\ NoRecorderCall

(***************************************************************************)
(* C18: when add runs while reset runs, no added sample is lost and none   *)
(* is counted twice: once the calls have returned, all the samples ever    *)
(* added are the ones the reset calls returned plus the ones still in the  *)
(* shards.                                                                 *)
(***************************************************************************)
RECURSIVE FoldShards(_, _)
FoldShards(t, result) ==
    IF t > NThreads THEN result ELSE FoldShards(t + 1, FoldAgent(result, ir_tls[t]))

C18_NoSampleLostOrDoubled ==
    NoRecorderCall => ir_all = StatAdd(ir_taken, FoldShards(1, StatDefault))

(***************************************************************************)
(* C19: Reducer.add takes no cross-thread lock.  A thread inside add never *)
(* stands before a lock that a call of another thread holds.               *)
(***************************************************************************)
C19_AddTakesNoSharedLock ==
    \A t \in Threads :
        (rcall[t].op = "add" /\ rcall[t].pc \in {"op", "lock"})
            => combiner_lock = Unlocked

(***************************************************************************)
(* C20: a thread has a shard exactly from its first add on, made with      *)
(* value = identity; the ids are 1, 2, ... in the order of the first adds, *)
(* so no two shards share an id and next_id is one more than the number    *)
(* of shards.                                                              *)
(***************************************************************************)
Shards == {t \in Threads : tls[t] # NoAgent}

C20_OneShardPerThread ==
    /\ [](/\ \A t, u \in Shards : t # u => tls[t].id # tls[u].id
          /\ {tls[t].id : t \in Shards} = 1..Cardinality(Shards)
          /\ next_id = Cardinality(Shards) + 1)
    /\ [][\A t \in Threads :
            /\ (tls[t] = NoAgent /\ tls'[t] # NoAgent)
                 => /\ ret'.op = "add" /\ ret'.thread = t
                    /\ tls'[t].value \in {identity, Combine(op, identity, ret'.val)}
                    /\ \A u \in Shards : tls[u].id < tls'[t].id
            /\ (Len(added') = Len(added) + 1 /\ ret'.thread = t)
                 => tls'[t] # NoAgent
            /\ tls[t] # NoAgent
                 => (tls'[t] # NoAgent /\ tls'[t].id = tls[t].id)
         ]_vars

\* the threads made their first adds in the opposite order of their numbers
C20_FirstTouchOutOfThreadOrder ==
    /\ Shards = Threads
    /\ \A t, u \in Threads : t < u => tls[t].id > tls[u].id

(***************************************************************************)
(* C21: an add(v) on thread t replaces the value of t's shard by           *)
(* combine(old value, v), the old value of a shard made by this call being *)
(* identity, and leaves the shard of every other thread as it was.         *)
(***************************************************************************)
ShardValue(f, t) == IF f[t] = NoAgent THEN identity ELSE f[t].value

C21_AddCombinesIntoOwnShard ==
    [][\A t \in Threads :
        (Len(added') = Len(added) + 1 /\ ret'.thread = t)
            => /\ tls'[t] # NoAgent
               /\ tls'[t].value = Combine(op, ShardValue(tls, t), ret'.val)
               /\ \A u \in Threads \ {t} : tls'[u] = tls[u]
      ]_vars

(***************************************************************************)
(* C22: get_value() returns the accumulator that starts as identity and    *)
(* takes in the value of every shard, one combine call after the other,    *)
(* and it changes no shard.                                                *)
(***************************************************************************)
C22_FoldThreadsAccumulator ==
    /\ [](ret.op = "get" => ret.val = ThreadedLoop(op, identity, TlsIter(tls)))
    /\ [][ret'.op = "get" => tls' = tls]_vars

(***************************************************************************)
(* C23: an append leaves last_point = (v, time of the call).  When a       *)
(* watermark exists and less than 1 s has passed since it, the call ends   *)
(* there: no tier and no watermark is written.  The watermark is written   *)
(* only by a call whose next step pushes its point into the second tier.   *)
(***************************************************************************)
SeriesState == <<tiervars, last_sample_time>>

C23_AppendFrame ==
    /\ []((appender[Caller].pc = "idle" /\ appends > 0)
            => last_point = DataPoint(appends, clock))
    /\ [][LET a == appender[Caller]
              early == /\ last_sample_time # NoTime
                       /\ a.now - last_sample_time < FromSecs(1)
          IN  /\ a.pc \in {"idle", "last", "gate"} => SeriesState' = SeriesState
              /\ (a.pc = "gate" /\ early) => appender'[Caller].pc = "idle"
              /\ last_sample_time' # last_sample_time
                    => /\ last_sample_time' = a.now
                       /\ appender'[Caller].pc = "second"
              /\ a.pc = "second"
                    => (second_points' # <<>>
                        /\ second_points'[Len(second_points')] = a.point)
         ]_vars

\* an append made half a second after the watermark has returned
C23_AppendWithinOneSecond ==
    /\ appender[Caller].pc = "idle"
    /\ last_sample_time # NoTime
    /\ last_point.timestamp > last_sample_time
    /\ last_point.timestamp - last_sample_time < FromSecs(1)

(***************************************************************************)
(* C24: an expose or expose_as that returns -1 leaves name() and the table *)
(* of exposed names as they were; one that returns 0 leaves name() =       *)
(* prefix_name (name alone for an empty prefix) and the table with exactly *)
(* one entry more, under that name, for the caller.                        *)
(***************************************************************************)
ExposeReturns == vret' # vret /\ vret'.op = "expose"

HideReturns == vret' # vret /\ vret'.op = "hide"

C25_HideOutcome ==
    [][LET c == vcall[Caller]
       IN  /\ (HideReturns /\ c.pc = "compare")
                => /\ vret'.hidden
                        => /\ c.entry.by = c.obj
                           /\ c.entry.var_ptr = v_addr[c.obj]
                           /\ c.entry.type_id = v_kind[c.obj]
                           /\ exposed_vars'[c.name] = NoEntry
                   /\ c.entry.by # c.obj => ~vret'.hidden
                   /\ ~vret'.hidden => exposed_vars'[c.name] = c.entry
                   /\ \A n \in FullNames \ {c.name} :
                         exposed_vars'[n] = exposed_vars[n]
           /\ (HideReturns /\ c.pc = "idle")
                => (~vret'.hidden /\ exposed_vars' = exposed_vars)
           /\ (HideReturns /\ v_name[vret'.obj] = InitialName(v_kind[vret'.obj]))
                => (~vret'.hidden /\ exposed_vars' = exposed_vars)
           /\ (c.pc = "idle" /\ vcall'[Caller].pc = "compare")
                => \A n \in FullNames \ {vcall'[Caller].name} :
                      exposed_vars'[n] = exposed_vars[n]
      ]_vars

\* an object that had hidden itself called hide again when its name was
\* another object's: false, and the other object's entry is in the table
C25_OthersEntryPutBack ==
    /\ vret.op = "hide" /\ ~vret.hidden
    /\ vret.name \in FullNames
    /\ exposed_vars[vret.name] # NoEntry
    /\ exposed_vars[vret.name].by # vret.obj
    /\ v_name[vret.obj] = vret.name

(***************************************************************************)
(* C26: a driver starts a sweep only when the time since last_sample_time  *)
(* is at least the interval, and last_sample_time becomes the present time *)
(* in that very step and in no other, so a sweep starts at least one       *)
(* interval after the one before.  A wake-up that comes earlier calls no   *)
(* sampler and leaves the registry and the samplers as they were.          *)
(***************************************************************************)
SweepStarts(d) == dpc[d] = "locked" /\ dpc'[d] = "sweep"

C26_SweepInterval ==
    [][/\ \A d \in DriverIds :
            /\ SweepStarts(d) => (elapsed >= SampleIntervalMs /\ elapsed' = 0)
            /\ (dpc[d] = "locked" /\ dpc'[d] # "locked" /\ elapsed < SampleIntervalMs)
                  => /\ dpc'[d] = "sleep"
                     /\ UNCHANGED <<pruned, upgraded, samplers, is_running, elapsed, valid_samplers,
                                    cur, proceed, objvars>>
            /\ (cur'[d] # cur[d] /\ cur'[d] # None) => dpc[d] = "sweep"
       /\ elapsed' < elapsed => \E d \in DriverIds : SweepStarts(d)
      ]_vars

\* a driver woke up less than one interval after last_sample_time and is
\* asleep again
C26_EarlyWakeUp ==
    \E d \in DriverIds :
        dpc[d] = "sleep" /\ elapsed > 0 /\ elapsed < SampleIntervalMs /\ samplers # <<>>

\* the entries of the registry that upgrade, in the order of the registry
IsLive(w) == w \in LiveSamplers

LiveEntries == SelectSeq(samplers, IsLive)

(***************************************************************************)
(* C27: a sweep starts with the driver, holding the registry lock, taking  *)
(* the entries that upgrade at that moment, in registry order; from then   *)
(* on this snapshot only loses its first sampler, to the take_sample()     *)
(* call the driver makes on it, until it is empty: every sampler of the    *)
(* snapshot is called, in order, and none that registered later is.        *)
(***************************************************************************)
C27_SweepFollowsSnapshot ==
    [][\A d \in DriverIds :
         /\ SweepStarts(d)
              => (lock = DriverThread(d) /\ valid_samplers'[d] = LiveEntries)
         /\ (valid_samplers'[d] # valid_samplers[d] /\ ~SweepStarts(d))
              => /\ valid_samplers[d] # <<>>
                 /\ valid_samplers'[d] = Tail(valid_samplers[d])
                 /\ cur'[d] = Head(valid_samplers[d])
                 /\ dpc'[d] = "in_take"
         /\ (dpc[d] = "sweep" /\ dpc'[d] # "sweep")
              => (dpc'[d] = "in_take" \/ valid_samplers[d] = <<>>)
      ]_vars

(***************************************************************************)
(* C28: the entries of the registry change only in register_sampler and at *)
(* the end of a sweep; both take out every entry that no longer upgrades   *)
(* and no entry that does (register_sampler then pushes the new one).      *)
(***************************************************************************)
C28_PruningExact ==
    [][/\ samplers' # samplers
            => \/ samplers' = LiveEntries
               \/ \E w \in SamplerIds : samplers' = Append(LiveEntries, w)
       /\ \A t \in Threads :
            (app[t].pc = "registering" /\ app'[t].pc = "idle")
                => samplers' = Append(LiveEntries, app[t].weak)
       /\ \A d \in DriverIds :
            (dpc[d] = "pruning" /\ dpc'[d] # "pruning") => samplers' = LiveEntries
       /\ \A s \in pruned' \ pruned : s \notin LiveSamplers
      ]_vars

\* a retain has removed the entry of a dead sampler and kept a live one's
C28_DeadPrunedLiveKept ==
    /\ pruned # {}
    /\ \E i \in 1..Len(samplers) : samplers[i] \in LiveSamplers \ pruned
    /\ \A i \in 1..Len(samplers) : samplers[i] \notin pruned

\* the example samplers that have an entry in REGISTRY and were not dropped
Registered(kind) ==
    {o \in ExampleIds : /\ ExampleKind(o) = kind
                        /\ ex_pc[o] # "dropped"
                        /\ \E i \in 1..Len(ex_registry) : ex_registry[i] = o}

(***************************************************************************)
(* C29: from the moment a MySampler has an entry in REGISTRY until it is   *)
(* dropped, the entry upgrades, and so does every entry of it that another *)
(* thread has found.                                                       *)
(***************************************************************************)
C29_CyclicEntryUpgrades ==
    /\ \A o \in Registered("MySampler") : ex_strong[o]
    /\ (ex_obs.obj # 0 /\ ExampleKind(ex_obs.obj) = "MySampler" /\ ~ex_obs.dropped)
          => (ex_obs.upgraded /\ ex_obs.self_set)

(***************************************************************************)
(* C30: FlawedSampler::new goes through a moment at which the sampler has  *)
(* an entry in REGISTRY that does not upgrade, or can be reached through   *)
(* REGISTRY while its weak_self is still None.                             *)
(***************************************************************************)
C30_FlawedWindow ==
    <>(\E o \in Registered("FlawedSampler") : ~ex_strong[o] \/ ex_weak_self[o] = None)

(***************************************************************************)
(* C31: of the expose calls that overlap on one full name only one returns *)
(* 0, and the entry is that call's: a call that returns 0 found no entry   *)
(* under the name when it put its own there, and no entry is replaced by   *)
(* the entry of another object.                                            *)
(***************************************************************************)
C31_OneExposeWins ==
    [][/\ (ExposeReturns /\ vret'.status = 0) => exposed_vars[vret'.name] = NoEntry
       /\ \A n \in FullNames :
            (exposed_vars[n] # NoEntry /\ exposed_vars'[n] # NoEntry)
                => exposed_vars'[n].by = exposed_vars[n].by
      ]_vars

\* the object has no entry of its own in EXPOSED_VARS
HoldsNoEntry(o) == \A n \in FullNames : exposed_vars[n].by # o

(***************************************************************************)
(* C32: between calls, is_hidden() of an object is true exactly when no    *)
(* entry of the table is that object's: true before the first expose,      *)
(* false after an expose that returned 0, true after a hide() that         *)
(* returned true.                                                          *)
(***************************************************************************)
C32_HiddenIffNoEntry ==
    \A o \in VarIds :
        (v_live[o] /\ Unborrowed(o)) => (IsHidden(o) <=> HoldsNoEntry(o))

\* the names under which the table holds an entry made by the object
EntriesOf(o) == {n \in FullNames : exposed_vars[n].by = o}

(***************************************************************************)
(* C33: the table never holds two entries of one object, and when hide()   *)
(* has returned true it holds none of the object that called it.           *)
(***************************************************************************)
C33_AtMostOneEntry ==
    /\ [](\A o \in VarIds : Cardinality(EntriesOf(o)) <= 1)
    /\ [][(HideReturns /\ vret'.hidden)
            => \A n \in FullNames : exposed_vars'[n].by # vret'.obj]_vars

\* no sampler occurs twice in the sequence
NoDuplicates(q) == \A i, j \in 1..Len(q) : q[i] = q[j] => i = j

(***************************************************************************)
(* C34: the registry never holds two entries that upgrade to one sampler,  *)
(* and no sweep has one sampler twice in its snapshot.                     *)
(***************************************************************************)
C34_SampledOncePerSweep ==
    /\ NoDuplicates(LiveEntries)
    /\ \A d \in DriverIds :
          /\ NoDuplicates(valid_samplers[d])
          /\ cur[d] # None => \A i \in 1..Len(valid_samplers[d]) : valid_samplers[d][i] # cur[d]

(***************************************************************************)
(* C35: whenever the registry lock is free, is_running = false means that  *)
(* no entry upgrades, and an entry that upgrades has a driver thread alive *)
(* to sample it.                                                           *)
(***************************************************************************)
C35_LiveEntryHasDriver ==
    lock = Free =>
        /\ ~is_running => LiveEntries = <<>>
        /\ LiveEntries # <<>> => \E d \in DriverIds : DriverAlive(d)

(***************************************************************************)
(* C40: the Weak that a schedule() call puts into the registry points to   *)
(* the sampler on which schedule() was called, for a sampler made by clone *)
(* as for one made by new.                                                 *)
(***************************************************************************)
C40_ScheduleRegistersSelf ==
    [][\A t \in Threads :
         (app[t].pc = "registering" /\ app'[t].pc = "idle")
            => (samplers' # <<>> /\ samplers'[Len(samplers')] = app[t].via)
      ]_vars

(***************************************************************************)
(* C37: in what describe writes, no point of the minute, hour or day tier  *)
(* is newer than the newest point of the second tier, also while append    *)
(* runs.                                                                   *)
(***************************************************************************)
C37_DescribeConsistentTiers ==
    se_out.described =>
        \A tier \in TierNames \ {"second"} :
            \A i \in 1..Len(se_out[tier].timestamps) :
                \E j \in 1..Len(se_out["second"].timestamps) :
                    se_out[tier].timestamps[i] <= se_out["second"].timestamps[j]

\* the time that lies between two neighbours of a tier
Spacing(tier) ==
    CASE tier = "second" -> FromSecs(1)
      [] tier = "minute" -> FromSecs(60)
      [] tier = "hour" -> FromSecs(3600)
      [] tier = "day" -> FromSecs(86400)

(***************************************************************************)
(* C38: two neighbours in a tier were appended at least 1 s apart in the   *)
(* second tier, 60 s in the minute tier, 3600 s in the hour tier and       *)
(* 86400 s in the day tier, also when several threads append.              *)
(***************************************************************************)
C38_TierSpacing ==
    \A tier \in TierNames :
        \A i \in 2..Len(TierPoints(tier)) :
            TierPoints(tier)[i].timestamp - TierPoints(tier)[i - 1].timestamp
                >= Spacing(tier)

(***************************************************************************)
(* C39: the error handler is invoked only when a sampling step fails: a    *)
(* take_sample() of the driver's sweep that read the value of a live       *)
(* owner and returned normally has not called on_error.                    *)
(***************************************************************************)
C39_OnErrorOnlyOnFailure ==
    [][\A d \in DriverIds :
         (dpc[d] = "in_take" /\ proceed[d] /\ dpc'[d] = "sweep")
            => ~on_error'
      ]_vars

(***************************************************************************)
(* C36: a strong handle that upgrade() makes for a test under the          *)
(* registry lock is never the final owner of its sampler: when the lock    *)
(* holder drops it, the sampler is still alive.                            *)
(***************************************************************************)
C36_TemporaryNeverLastOwner ==
    [][(upgraded # None /\ upgraded' = None) => upgraded \in LiveSamplers'
      ]_vars

====
